---- MODULE Spec2Model ----
(***************************************************************************)
(* build_pptx.py: a script that assembles a slide deck in memory with a    *)
(* set of layout helpers (add_slide, add_text, add_rich_text, add_bullets, *)
(* add_callout, add_discussion, title_slide, content_slide,                *)
(* discussion_slide, quiz_slide), then deletes a legacy output file, saves *)
(* the deck and prints a summary.                                          *)
(*                                                                         *)
(* Lengths are English Metric Units (914400 per inch), as pptx.util.Inches *)
(* yields them.  Text is a string; a character outside printable ASCII is  *)
(* written [U+XXXX] (its code point).  The helpers are operators on a      *)
(* record d of the module globals: d.prs (the slides of the presentation)  *)
(* and d.ctr (slide_number_counter[0]); a slide is named by its index in   *)
(* d.prs.                                                                  *)
(***************************************************************************)
EXTENDS Integers, Sequences, FiniteSets, TLC

VARIABLES
  script,                \* the top-level slide-construction statements that are run
  pc,                    \* position of the run at the top level of the script
  stmt_i,                \* index in script of the next statement to execute
  prs,                   \* prs.slides: the slides of the in-memory presentation
  slide_number_counter,  \* slide_number_counter[0]
  s,                     \* the module-level variable s (a slide), 0 while unbound
  old_file,              \* whether the legacy file Your_First_Phone_Ellianna.pptx exists
  out_file,              \* the output file Your_First_Phone_Elli.pptx
  size,                  \* the variable size (bytes), 0 before it is assigned
  stdout,                \* the lines printed so far
  fs_ops,                \* the filesystem operations performed so far, in order
  raised                 \* the step whose exception reached the top level, "" if none

vars == <<script, pc, stmt_i, prs, slide_number_counter, s, old_file, out_file,
          size, stdout, fs_ops, raised>>

-----------------------------------------------------------------------------
(* Python values *)

\* None and a present value of an optional argument
None == [some |-> FALSE]
Some(v) == [some |-> TRUE, v |-> v]

\* Python truth value of an optional string or list: None, "" and [] are false
Truthy(x) == x.some /\ Len(x.v) > 0


Lower == "abcdefghijklmnopqrstuvwxyz"
UpperLetters == "ABCDEFGHIJKLMNOPQRSTUVWXYZ"

\* str.upper() of one character (ASCII letters; every other character of the
\* texts used here has no upper-case form)
UpperChar(c) ==
  IF \E k \in 1..Len(Lower) : SubSeq(Lower, k, k) = c
  THEN LET k == CHOOSE j \in 1..Len(Lower) : SubSeq(Lower, j, j) = c
       IN SubSeq(UpperLetters, k, k)
  ELSE c

RECURSIVE UpperFrom(_, _)
UpperFrom(str, i) ==
  IF i > Len(str) THEN "" ELSE UpperChar(SubSeq(str, i, i)) \o UpperFrom(str, i + 1)

\* str.upper()
Upper(str) == UpperFrom(str, 1)

-----------------------------------------------------------------------------
(* pptx.util.Inches *)

\* The thousandths of an inch, up to 14 inches, for which the float product
\* (m / 1000) * 914400 falls just below the exact integer, so that int()
\* truncates to one EMU less.
InchesShort ==
  {285, 565, 570, 1005, 1015, 1025, 1035, 1045, 1130, 1140, 2010, 2030, 2050,
   2070, 2090, 2135, 2155, 2175, 2195, 2215, 2260, 2280, 4015, 4020, 4055,
   4060, 4100, 4140, 4145, 4180, 4185, 4225, 4265, 4270, 4305, 4310, 4350,
   4390, 4395, 4430, 4435, 4475, 4515, 4520, 4555, 4560, 8030, 8040, 8075,
   8110, 8120, 8155, 8165, 8200, 8235, 8245, 8280, 8290, 8325, 8360, 8370,
   8405, 8415, 8450, 8485, 8495, 8530, 8540, 8575, 8610, 8620, 8655, 8665,
   8700, 8735, 8745, 8780, 8790, 8825, 8860, 8870, 8905, 8915, 8950, 8985,
   8995, 9030, 9040, 9075, 9110, 9120, 9155, 9165}

\* Inches(m / 1000) = int((m / 1000) * 914400), for m thousandths of an inch
\* (914400 / 1000 = 4572 / 5)
Inches(m) ==
  ((m * 4572) \div 5) - (IF m \in InchesShort THEN 1 ELSE 0)

\* Inches(n * 0.38) = int(n * 0.38 * 914400) for a list length n (n <= 100):
\* 0.38 * 914400 = 347472, and the float product is one EMU short for the
\* lengths listed
InchesItems(n) ==
  (n * 347472) - (IF n \in {11, 22, 44, 85, 88} THEN 1 ELSE 0)

SLIDE_W == Inches(13333)
SLIDE_H == Inches(7500)
FONT == "Calibri"

-----------------------------------------------------------------------------
(* The layout helpers *)

\* the new shape put in front of the slide's shapes
AddShapeTo_in_front(d, slide, shape) ==
  [d EXCEPT !.prs[slide].shapes = <<shape>> \o @]

\* slide.shapes.add_textbox / add_shape: the slide's shape list with one more shape
AddShapeTo(d, slide, shape) ==
  [d EXCEPT !.prs[slide].shapes = Append(@, shape)]

\* add_slide putting the new slide in front of the others
add_slide_in_front(d) ==
  LET n == d.ctr + 1
      label == [kind |-> "textbox",
                left |-> Inches(12300), top |-> Inches(7000),
                width |-> Inches(800), height |-> Inches(400),
                paras |-> << [text |-> ToString(n), font_size |-> 10, color |-> "DIM",
                              font_name |-> FONT, alignment |-> "RIGHT"] >>]
      slide == [background |-> "BG", shapes |-> <<label>>,
                has_notes |-> FALSE, notes |-> <<>>]
  IN [d EXCEPT !.prs = <<slide>> \o @, !.ctr = n]

\* add_slide with the label written from the counter before it is incremented
add_slide_label_first(d) ==
  LET label == [kind |-> "textbox",
                left |-> Inches(12300), top |-> Inches(7000),
                width |-> Inches(800), height |-> Inches(400),
                paras |-> << [text |-> ToString(d.ctr), font_size |-> 10, color |-> "DIM",
                              font_name |-> FONT, alignment |-> "RIGHT"] >>]
      slide == [background |-> "BG", shapes |-> <<label>>,
                has_notes |-> FALSE, notes |-> <<>>]
  IN [d EXCEPT !.prs = Append(@, slide), !.ctr = @ + 1]

\* add_slide with the number label starting 12.8 in from the left
add_slide_label_at_edge(d) ==
  LET n == d.ctr + 1
      label == [kind |-> "textbox",
                left |-> Inches(12800), top |-> Inches(7000),
                width |-> Inches(800), height |-> Inches(400),
                paras |-> << [text |-> ToString(n), font_size |-> 10, color |-> "DIM",
                              font_name |-> FONT, alignment |-> "RIGHT"] >>]
      slide == [background |-> "BG", shapes |-> <<label>>,
                has_notes |-> FALSE, notes |-> <<>>]
  IN [d EXCEPT !.prs = Append(@, slide), !.ctr = n]

\* def add_slide(): a new slide with the dark background and its number label
add_slide(d) ==
  LET n == d.ctr + 1
      label == [kind |-> "textbox",
                left |-> Inches(12300), top |-> Inches(7000),
                width |-> Inches(800), height |-> Inches(400),
                paras |-> << [text |-> ToString(n), font_size |-> 10, color |-> "DIM",
                              font_name |-> FONT, alignment |-> "RIGHT"] >>]
      slide == [background |-> "BG", shapes |-> <<label>>,
                has_notes |-> FALSE, notes |-> <<>>]
  IN [d EXCEPT !.prs = Append(@, slide), !.ctr = n]

\* def add_text(slide, left, top, width, height, text, font_size, color, bold, alignment)
add_text(d, slide, left, top, width, height, text, font_size, color, bold, alignment) ==
  AddShapeTo(d, slide,
    [kind |-> "textbox", left |-> left, top |-> top, width |-> width,
     height |-> height, word_wrap |-> TRUE,
     paras |-> << [text |-> text, font_size |-> font_size, color |-> color,
                   bold |-> bold, font_name |-> FONT, alignment |-> alignment] >>])

\* the runs add_rich_text puts into the paragraph: one per (text, size, color,
\* bold) tuple, in list order
RichRuns(runs) ==
  [i \in 1..Len(runs) |->
     [text |-> runs[i][1], font_size |-> runs[i][2], color |-> runs[i][3],
      bold |-> runs[i][4], font_name |-> FONT]]

\* def add_rich_text(slide, left, top, width, height, runs, alignment): one text
\* box of one paragraph holding the runs
add_rich_text(d, slide, left, top, width, height, runs, alignment) ==
  AddShapeTo(d, slide,
    [kind |-> "textbox", left |-> left, top |-> top, width |-> width,
     height |-> height, word_wrap |-> TRUE,
     paras |-> << [alignment |-> alignment, runs |-> RichRuns(runs)] >>])

\* the paragraphs when every item is written into the first paragraph
BulletParas_first_only(items, font_size) ==
  IF Len(items) = 0
  THEN << [text |-> ""] >>
  ELSE << [text |-> items[Len(items)][1] \o "  " \o items[Len(items)][2],
           font_size |-> font_size, color |-> "WHITE", font_name |-> FONT,
           space_after |-> 6, space_before |-> 2] >>

\* the paragraphs add_bullets builds: one per (emoji, text) pair, in list
\* order; the text frame's initial empty paragraph when the list is empty
BulletParas(items, font_size) ==
  IF Len(items) = 0
  THEN << [text |-> ""] >>
  ELSE [i \in 1..Len(items) |->
          [text |-> items[i][1] \o "  " \o items[i][2], font_size |-> font_size,
           color |-> "WHITE", font_name |-> FONT,
           space_after |-> 6, space_before |-> 2]]

\* def add_bullets(slide, left, top, width, height, items, font_size=26)
add_bullets(d, slide, left, top, width, height, items, font_size) ==
  AddShapeTo(d, slide,
    [kind |-> "textbox", left |-> left, top |-> top, width |-> width,
     height |-> height, word_wrap |-> TRUE,
     paras |-> BulletParas(items, font_size)])

\* add_callout with the body box as high as the callout less 0.3 in
add_callout_tall_body(d, slide, left, top, width, height, label, text, label_color, border_color) ==
  add_text(
    add_text(
      AddShapeTo(
        AddShapeTo(d, slide,
          [kind |-> "ROUNDED_RECTANGLE", left |-> left, top |-> top,
           width |-> width, height |-> height,
           fill |-> "BG_SURFACE", line |-> "none"]),
        slide,
        [kind |-> "RECTANGLE", left |-> left, top |-> top + Inches(50),
         width |-> Inches(80), height |-> height - Inches(100),
         fill |-> border_color, line |-> "none"]),
      slide, left + Inches(250), top + Inches(100), width - Inches(400), Inches(300),
      Upper(label), 12, label_color, TRUE, "LEFT"),
    slide, left + Inches(250), top + Inches(380), width - Inches(400),
    height - Inches(300), text, 18, "DIM", FALSE, "LEFT")

\* add_callout with the label written as given
add_callout_label_as_given(d, slide, left, top, width, height, label, text, label_color, border_color) ==
  add_text(
    add_text(
      AddShapeTo(
        AddShapeTo(d, slide,
          [kind |-> "ROUNDED_RECTANGLE", left |-> left, top |-> top,
           width |-> width, height |-> height,
           fill |-> "BG_SURFACE", line |-> "none"]),
        slide,
        [kind |-> "RECTANGLE", left |-> left, top |-> top + Inches(50),
         width |-> Inches(80), height |-> height - Inches(100),
         fill |-> border_color, line |-> "none"]),
      slide, left + Inches(250), top + Inches(100), width - Inches(400), Inches(300),
      label, 12, label_color, TRUE, "LEFT"),
    slide, left + Inches(250), top + Inches(380), width - Inches(400),
    height - Inches(500), text, 18, "DIM", FALSE, "LEFT")

\* add_callout without the accent bar
add_callout_no_bar(d, slide, left, top, width, height, label, text, label_color, border_color) ==
  add_text(
    add_text(
      AddShapeTo(d, slide,
        [kind |-> "ROUNDED_RECTANGLE", left |-> left, top |-> top,
         width |-> width, height |-> height,
         fill |-> "BG_SURFACE", line |-> "none"]),
      slide, left + Inches(250), top + Inches(100), width - Inches(400), Inches(300),
      Upper(label), 12, label_color, TRUE, "LEFT"),
    slide, left + Inches(250), top + Inches(380), width - Inches(400),
    height - Inches(500), text, 18, "DIM", FALSE, "LEFT")

\* def add_callout(slide, left, top, width, height, label, text, label_color, border_color):
\* the background shape, the accent bar, the label and the text, in this order
add_callout(d, slide, left, top, width, height, label, text, label_color, border_color) ==
  add_text(
    add_text(
      AddShapeTo(
        AddShapeTo(d, slide,
          [kind |-> "ROUNDED_RECTANGLE", left |-> left, top |-> top,
           width |-> width, height |-> height,
           fill |-> "BG_SURFACE", line |-> "none"]),
        slide,
        [kind |-> "RECTANGLE", left |-> left, top |-> top + Inches(50),
         width |-> Inches(80), height |-> height - Inches(100),
         fill |-> border_color, line |-> "none"]),
      slide, left + Inches(250), top + Inches(100), width - Inches(400), Inches(300),
      Upper(label), 12, label_color, TRUE, "LEFT"),
    slide, left + Inches(250), top + Inches(380), width - Inches(400),
    height - Inches(500), text, 18, "DIM", FALSE, "LEFT")

\* def add_discussion(slide, left, top, width, height, question): the box, the
\* header and the question, in this order
add_discussion(d, slide, left, top, width, height, question) ==
  add_text(
    add_text(
      AddShapeTo(d, slide,
        [kind |-> "ROUNDED_RECTANGLE", left |-> left, top |-> top,
         width |-> width, height |-> height,
         fill |-> "1f1a3e", line |-> "PURPLE", line_width |-> 2]),
      slide, left + Inches(300), top + Inches(200), width - Inches(600), Inches(400),
      "[U+1F4AC] DISCUSSION PROMPT", 19, "PURPLE", TRUE, "LEFT"),
    slide, left + Inches(300), top + Inches(550), width - Inches(600),
    height - Inches(700), question, 28, "WHITE", FALSE, "LEFT")

-----------------------------------------------------------------------------
(* The slide composers.  Their local variables slide and y travel in a      *)
(* cursor c = [d, slide, y]: d the globals, slide the slide being composed, *)
(* y the vertical position of the next section.  A composer that reads the  *)
(* cursor more than once names its value v first (v \in {c}), so that the   *)
(* cursor handed to it is computed once.                                    *)

\* slide = add_slide(); y = y0
NewSlide(d, y0) == [d |-> d, slide |-> Len(d.prs), y |-> y0]

\* the module label section without the advance of y
TitleLabel_no_advance(c, module_label) ==
  IF Truthy(module_label)
  THEN CHOOSE r \in {[v EXCEPT !.d = add_text(@, v.slide, Inches(1000), v.y, Inches(11333), Inches(400),
                                              Upper(module_label.v), 14, "TEAL", TRUE, "CENTER")] : v \in {c}} : TRUE
  ELSE c

\* if module_label: the label box, and y += Inches(0.5)
TitleLabel(c, module_label) ==
  IF Truthy(module_label)
  THEN CHOOSE r \in {[v EXCEPT !.d = add_text(@, v.slide, Inches(1000), v.y, Inches(11333), Inches(400),
                                              Upper(module_label.v), 14, "TEAL", TRUE, "CENTER"),
                               !.y = @ + Inches(500)] : v \in {c}} : TRUE
  ELSE c

\* the emoji box, and y += Inches(1.1)
TitleEmoji(c, emoji) ==
  CHOOSE r \in {[v EXCEPT !.d = add_text(@, v.slide, Inches(1000), v.y, Inches(11333), Inches(1000),
                                         emoji, 72, "WHITE", FALSE, "CENTER"),
                          !.y = @ + Inches(1100)] : v \in {c}} : TRUE

\* the title box, and y += Inches(1.0)
TitleTitle(c, title) ==
  CHOOSE r \in {[v EXCEPT !.d = add_text(@, v.slide, Inches(1000), v.y, Inches(11333), Inches(1000),
                                         title, 48, "PURPLE", TRUE, "CENTER"),
                          !.y = @ + Inches(1000)] : v \in {c}} : TRUE

\* the subtitle box
TitleSubtitle(c, subtitle) ==
  CHOOSE r \in {[v EXCEPT !.d = add_text(@, v.slide, Inches(1500), v.y, Inches(10333), Inches(1500),
                                         subtitle, 26, "DIM", FALSE, "CENTER")] : v \in {c}} : TRUE

\* def title_slide(emoji, title, subtitle, module_label=None)
title_slide(d, emoji, title, subtitle, module_label) ==
  TitleSubtitle(
    TitleTitle(
      TitleEmoji(
        TitleLabel(NewSlide(add_slide(d), Inches(1000)), module_label),
        emoji),
      title),
    subtitle).d

\* the emoji section without the advance of y
ContentEmoji_no_advance(c, emoji) ==
  IF Truthy(emoji)
  THEN CHOOSE r \in {[v EXCEPT !.d = add_text(@, v.slide, Inches(1000), v.y, Inches(11333), Inches(800),
                                              emoji.v, 52, "WHITE", FALSE, "CENTER")] : v \in {c}} : TRUE
  ELSE c

\* if emoji: the emoji box, and y += Inches(0.8)
ContentEmoji(c, emoji) ==
  IF Truthy(emoji)
  THEN CHOOSE r \in {[v EXCEPT !.d = add_text(@, v.slide, Inches(1000), v.y, Inches(11333), Inches(800),
                                              emoji.v, 52, "WHITE", FALSE, "CENTER"),
                               !.y = @ + Inches(800)] : v \in {c}} : TRUE
  ELSE c

\* the title box, and y += Inches(0.7)
ContentTitle(c, title) ==
  CHOOSE r \in {[v EXCEPT !.d = add_text(@, v.slide, Inches(800), v.y, Inches(11733), Inches(600),
                                         title, 36, "PURPLE", TRUE, "CENTER"),
                          !.y = @ + Inches(700)] : v \in {c}} : TRUE

\* the body text section under the test "body_text is not None"
ContentBodyText_not_none(c, body_text) ==
  IF body_text # None
  THEN CHOOSE r \in {[v EXCEPT !.d = add_text(@, v.slide, Inches(1500), v.y, Inches(10333), Inches(800),
                                              body_text.v, 28, "DIM", FALSE, "CENTER"),
                               !.y = @ + Inches(800)] : v \in {c}} : TRUE
  ELSE c

\* if body_text: the body text box, and y += Inches(0.8)
ContentBodyText(c, body_text) ==
  IF Truthy(body_text)
  THEN CHOOSE r \in {[v EXCEPT !.d = add_text(@, v.slide, Inches(1500), v.y, Inches(10333), Inches(800),
                                              body_text.v, 28, "DIM", FALSE, "CENTER"),
                               !.y = @ + Inches(800)] : v \in {c}} : TRUE
  ELSE c

\* if body_items: the bullets box, and y += Inches(len(body_items) * 0.38)
ContentBullets(c, body_items) ==
  IF Truthy(body_items)
  THEN CHOOSE r \in {[v EXCEPT !.d = add_bullets(@, v.slide, Inches(1500), v.y, Inches(10333),
                                                 Inches(4500), body_items.v, 26),
                               !.y = @ + InchesItems(Len(body_items.v))] : v \in {c}} : TRUE
  ELSE c

\* the label colour content_slide gives a callout type
CalloutLabelColor(ctype) ==
  IF ctype = "rt" THEN "PINK" ELSE (IF ctype = "warn" THEN "WARN" ELSE "GREEN")

\* the border colour taken to be the label colour
CalloutBorderColor_as_label(ctype) ==
  IF ctype = "rt" THEN "PINK" ELSE (IF ctype = "warn" THEN "WARN" ELSE "GREEN")

\* the border colour content_slide gives a callout type
CalloutBorderColor(ctype) ==
  IF ctype = "rt" THEN "PURPLE" ELSE (IF ctype = "warn" THEN "WARN" ELSE "GREEN")

\* one turn of "for ctype, label, text in callouts": the callout, and y += Inches(1.1)
ContentCallout(c, callout) ==
  CHOOSE r \in {[v EXCEPT !.d = add_callout(@, v.slide, Inches(1500), v.y, Inches(10333), Inches(1000),
                                            callout[2], callout[3],
                                            CalloutLabelColor(callout[1]),
                                            CalloutBorderColor(callout[1])),
                          !.y = @ + Inches(1100)] : v \in {c}} : TRUE

RECURSIVE ContentCalloutsFrom(_, _, _)
\* the loop "for ctype, label, text in callouts", from index i
ContentCalloutsFrom(c, callouts, i) ==
  IF i > Len(callouts)
  THEN c
  ELSE ContentCalloutsFrom(ContentCallout(c, callouts[i]), callouts, i + 1)

\* if callouts: one callout per tuple, in list order
ContentCallouts(c, callouts) ==
  IF Truthy(callouts) THEN ContentCalloutsFrom(c, callouts.v, 1) ELSE c

\* if note: the note box
ContentNote(c, note) ==
  IF Truthy(note)
  THEN CHOOSE r \in {[v EXCEPT !.d = add_text(@, v.slide, Inches(1500), v.y, Inches(10333), Inches(500),
                                              note.v, 18, "PURPLE", FALSE, "CENTER")] : v \in {c}} : TRUE
  ELSE c

\* content_slide with the bullet list emitted before the body text
content_slide_bullets_first(d, emoji, title, body_items, body_text, callouts, note) ==
  ContentNote(
    ContentCallouts(
      ContentBodyText(
        ContentBullets(
          ContentTitle(
            ContentEmoji(NewSlide(add_slide(d), Inches(400)), emoji),
            title),
          body_items),
        body_text),
      callouts),
    note).d

\* def content_slide(emoji, title, body_items=None, body_text=None, callouts=None, note=None)
content_slide(d, emoji, title, body_items, body_text, callouts, note) ==
  ContentNote(
    ContentCallouts(
      ContentBullets(
        ContentBodyText(
          ContentTitle(
            ContentEmoji(NewSlide(add_slide(d), Inches(400)), emoji),
            title),
          body_text),
        body_items),
      callouts),
    note).d

\* def discussion_slide(question)
discussion_slide(d, question) ==
  add_discussion(add_slide(d), Len(d.prs) + 1, Inches(1500), Inches(1500),
                 Inches(10333), Inches(4500), question)

\* the slide title box of quiz_slide, and y = Inches(1.0)
QuizTitle(c, slide_title) ==
  CHOOSE r \in {[v EXCEPT !.d = add_text(@, v.slide, Inches(800), Inches(300), Inches(11733), Inches(600),
                                         slide_title, 34, "PURPLE", TRUE, "CENTER"),
                          !.y = Inches(1000)] : v \in {c}} : TRUE

\* the question box, and y += Inches(0.45)
QuizQuestionText(c, q) ==
  CHOOSE r \in {[v EXCEPT !.d = add_text(@, v.slide, Inches(1200), v.y, Inches(10900), Inches(500),
                                         q, 26, "WHITE", TRUE, "LEFT"),
                          !.y = @ + Inches(450)] : v \in {c}} : TRUE

\* the marker put on the first option, whatever correct_idx is
QuizMarker_on_first(i, ci) == IF i = 0 THEN "[U+2705] " ELSE "[U+25CB] "

\* the marker under a correct_idx read as counting from 1
QuizMarker_one_based(i, ci) == IF i + 1 = ci THEN "[U+2705] " ELSE "[U+25CB] "

\* the marker of option i of a question whose correct_idx is ci
QuizMarker(i, ci) == IF i = ci THEN "[U+2705] " ELSE "[U+25CB] "

\* the colour of option i of a question whose correct_idx is ci
QuizColor(i, ci) == IF i = ci THEN "GREEN" ELSE "DIM"

\* one turn of "for i, o in enumerate(opts)": the option box, and y += Inches(0.28)
QuizOption(c, i, o, ci) ==
  CHOOSE r \in {[v EXCEPT !.d = add_text(@, v.slide, Inches(1600), v.y, Inches(10500), Inches(300),
                                         QuizMarker(i, ci) \o o, 16, QuizColor(i, ci), FALSE, "LEFT"),
                          !.y = @ + Inches(280)] : v \in {c}} : TRUE

RECURSIVE QuizOptionsFrom(_, _, _, _)
\* the loop "for i, o in enumerate(opts)", from the option at (1-based) index k
QuizOptionsFrom(c, opts, ci, k) ==
  IF k > Len(opts)
  THEN c
  ELSE QuizOptionsFrom(QuizOption(c, k - 1, opts[k], ci), opts, ci, k + 1)

\* after the options of a question: y += Inches(0.15)
QuizGap(c) == [c EXCEPT !.y = @ + Inches(150)]

RECURSIVE QuizQuestionsFrom(_, _, _)
\* the loop "for q, opts, ci, expl in questions" that renders the questions,
\* from index j
QuizQuestionsFrom(c, questions, j) ==
  IF j > Len(questions)
  THEN c
  ELSE QuizQuestionsFrom(
         QuizGap(QuizOptionsFrom(QuizQuestionText(c, questions[j][1]),
                                 questions[j][2], questions[j][3], 1)),
         questions, j + 1)

\* the speaker-note paragraphs when the notes loop walks the list backwards
QuizNotes_reversed(questions) ==
  [j \in 1..Len(questions) |->
     "Q: " \o questions[Len(questions) + 1 - j][1]
       \o "\nA: " \o questions[Len(questions) + 1 - j][4] \o "\n"]

\* the speaker-note paragraphs quiz_slide adds: "Q: {q}\nA: {expl}\n" per
\* question, in list order
QuizNotes(questions) ==
  [j \in 1..Len(questions) |->
     "Q: " \o questions[j][1] \o "\nA: " \o questions[j][4] \o "\n"]

\* the second loop of quiz_slide: the notes slide of the slide gets one
\* paragraph per question
QuizAddNotes(c, questions) ==
  CHOOSE r \in {[v EXCEPT !.d.prs[v.slide].has_notes = TRUE,
                          !.d.prs[v.slide].notes = @ \o QuizNotes(questions)] : v \in {c}} : TRUE

\* quiz_slide drawing on the slide before it instead of a new one
quiz_slide_no_new_slide(d, questions, slide_title) ==
  QuizAddNotes(
    QuizQuestionsFrom(QuizTitle(NewSlide(d, 0), slide_title), questions, 1),
    questions).d

\* def quiz_slide(questions, slide_title)
quiz_slide(d, questions, slide_title) ==
  QuizAddNotes(
    QuizQuestionsFrom(QuizTitle(NewSlide(add_slide(d), 0), slide_title), questions, 1),
    questions).d

-----------------------------------------------------------------------------
(* The build sequence: the top-level statements of lines 216-1016, in order *)

BuildSeq ==
  <<
    \* 1: line 217
    [op |-> "title_slide", emoji |-> "[U+1F4F1]", title |-> "Welcome, Elli!", subtitle |-> "Your Personal Guide to Being Smart, Safe & In Control\n\nMade just for you, with love from Mom & Dad [U+2764][U+FE0F]", module_label |-> None],
    \* 2: line 220
    [op |-> "content_slide", assign |-> FALSE, emoji |-> Some("[U+1F389]"), title |-> "First Things First, Elli", body_items |-> None, body_text |-> Some("Getting your own phone is a big deal. This course isn't a punishment [U+2014] it's your preparation.\n\nThink of it like getting a driver's license. You wouldn't just hop in a car without learning the rules, right?"), callouts |-> None, note |-> None],
    \* 3: line 225
    [op |-> "content_slide", assign |-> FALSE, emoji |-> Some("[U+1F4AA]"), title |-> "We Trust You, Elli", body_items |-> None, body_text |-> Some("The fact that you're getting a phone means your parents believe you're ready for more responsibility.\n\nThis course is about giving you the knowledge and tools to handle it like a boss."), callouts |-> None, note |-> None],
    \* 4: line 229
    [op |-> "content_slide", assign |-> FALSE, emoji |-> Some("[U+2696][U+FE0F]"), title |-> "What a Phone Really Means", body_items |-> Some(<<<<"[U+1F30D]", "Access to the entire world [U+2014] the good AND the bad">>, <<"[U+1F5E3][U+FE0F]", "A direct line to anyone, anywhere, anytime">>, <<"[U+1F4F8]", "A camera that can capture (and share) anything">>, <<"[U+1F9E0]", "A tool that can make your life better [U+2014] or worse">>, <<"[U+1F4A1]", "It all depends on how YOU use it">>>>), body_text |-> None, callouts |-> None, note |-> None],
    \* 5: line 238
    [op |-> "content_slide", assign |-> FALSE, emoji |-> Some("[U+1F3AF]"), title |-> "What You'll Learn Today", body_items |-> Some(<<<<"[U+1F527]", "Building healthy tech habits">>, <<"[U+1F6E1][U+FE0F]", "Spotting scams and staying safe from predators">>, <<"[U+1F512]", "Protecting your personal information">>, <<"[U+1F9E0]", "Protecting your mental health">>, <<"[U+1F916]", "Navigating AI smartly">>, <<"[U+1F4CA]", "Outsmarting the algorithm">>, <<"[U+1F4F1]", "Social media [U+2014] the real talk">>, <<"[U+1F31F]", "Using your phone to level up your life">>>>), body_text |-> None, callouts |-> None, note |-> None],
    \* 6: line 250
    [op |-> "discussion_slide", question |-> "Before we start: Elli, what are you MOST excited about having your own phone? What (if anything) makes you nervous about it?"],
    \* 7: line 253
    [op |-> "title_slide", emoji |-> "[U+23F0]", title |-> "Building Tech Habits That Stick", subtitle |-> "You control the phone.\nThe phone does NOT control you.", module_label |-> Some("Module 2 [U+2014] Tech Habits")],
    \* 8: line 258
    [op |-> "content_slide", assign |-> FALSE, emoji |-> Some("[U+1F4CA]"), title |-> "Screen Time Awareness", body_items |-> None, body_text |-> Some("The average teen spends 7+ hours per day on screens (outside of school).\n\nThat's almost a full-time job! Being aware of your usage is the first step to staying in control."), callouts |-> None, note |-> None],
    \* 9: line 262
    [op |-> "content_slide", assign |-> FALSE, emoji |-> Some("[U+23F1][U+FE0F]"), title |-> "Set Your Own Boundaries", body_items |-> Some(<<<<"[U+1F4F1]", "Use Screen Time / Digital Wellbeing to track your usage">>, <<"[U+23F0]", "Set daily app limits (especially TikTok and YouTube [U+2014] they're time machines!)">>, <<"[U+1F3AF]", "Ask yourself: \"Am I using my phone on purpose, or just because I'm bored?\"">>, <<"[U+1F4DD]", "Try a \"screen time journal\" for the first week [U+2014] you'll be surprised!">>>>), body_text |-> None, callouts |-> None, note |-> None],
    \* 10: line 270
    [op |-> "content_slide", assign |-> FALSE, emoji |-> Some("[U+1F514]"), title |-> "Tame Your Notifications", body_items |-> Some(<<<<"[U+1F507]", "Turn off notifications for most apps">>, <<"[U+2B50]", "Only keep notifications for calls, texts from family, and essentials">>, <<"[U+1F9D8]", "Try \"Do Not Disturb\" mode during homework and meals">>, <<"[U+1F4A1]", "YOU decide when to check your phone [U+2014] not the app">>>>), body_text |-> Some("Every buzz, ding, and banner is designed to pull you back in."), callouts |-> None, note |-> None],
    \* 11: line 280
    [op |-> "content_slide", assign |-> FALSE, emoji |-> Some("[U+1F634]"), title |-> "Sleep Hygiene", body_items |-> Some(<<<<"[U+1F6AB]", "No phone in your bedroom at night">>, <<"[U+1F50C]", "Phone charges in the kitchen/living room overnight">>, <<"[U+23F0]", "Screen curfew: 1 hour before bed">>, <<"[U+1F60C]", "Your brain needs downtime to process the day">>>>), body_text |-> Some("Blue light and late-night scrolling wreck your sleep [U+2014] and sleep is everything at your age."), callouts |-> Some(<<<<"rt", "Real Talk", "Studies show teens who keep phones in their bedroom get 30 minutes LESS sleep per night on average. Over a year, that's 180 hours of lost sleep.">>>>), note |-> None],
    \* 12: line 291
    [op |-> "content_slide", assign |-> FALSE, emoji |-> Some("[U+1F0CF]"), title |-> "The Phone Stack Game", body_items |-> Some(<<<<"[U+1F4F1]", "Everyone stacks their phones in the middle of the table">>, <<"[U+1F6AB]", "First person to grab their phone loses (pays for dessert, does a dare, etc.)">>, <<"[U+1F91D]", "It's about being PRESENT with the people in front of you">>>>), body_text |-> Some("When hanging out with friends or family:"), callouts |-> None, note |-> Some("The people in front of you always matter more than the people on your screen.")],
    \* 13: line 301
    [op |-> "content_slide", assign |-> FALSE, emoji |-> Some("[U+1F4F5]"), title |-> "Phone-Free Zones & Times", body_items |-> Some(<<<<"[U+1F37D][U+FE0F]", "Meals [U+2014] always phone-free">>, <<"[U+1F4DA]", "Homework time [U+2014] phone in another room">>, <<"[U+1F6CF][U+FE0F]", "Bedroom at night">>, <<"[U+26EA]", "Family events, ceremonies, gatherings">>, <<"[U+1F697]", "Car rides (try talking instead!)">>>>), body_text |-> None, callouts |-> Some(<<<<"tip", "Pro Tip", "Making these habits now means they'll feel natural forever. It's way harder to break bad habits than to build good ones from the start.">>>>), note |-> None],
    \* 14: line 310
    [op |-> "discussion_slide", question |-> "Elli, what phone-free zones and times make sense for your family? Discuss and agree on at least 3 together."],
    \* 15: line 313
    [op |-> "title_slide", emoji |-> "[U+1F6E1][U+FE0F]", title |-> "Watching Out for Scams & Predators", subtitle |-> "This is the most important module.\nPlease take it seriously, Elli.", module_label |-> Some("Module 3 [U+2014] Safety")],
    \* 16: line 318
    [op |-> "content_slide", assign |-> FALSE, emoji |-> Some("[U+1F3A3]"), title |-> "How Scams Work", body_items |-> Some(<<<<"[U+23F0]", "Urgency [U+2014] \"Act NOW or lose your account!\"">>, <<"[U+1F381]", "Too good to be true [U+2014] \"You won a free iPhone!\"">>, <<"[U+1F628]", "Fear [U+2014] \"Your account has been hacked!\"">>, <<"[U+2764][U+FE0F]", "Emotion [U+2014] \"Help this sick puppy!\"">>, <<"[U+1F3AD]", "Impersonation [U+2014] pretending to be a friend, company, or authority">>>>), body_text |-> Some("Scammers use psychological tricks to get you to act without thinking:"), callouts |-> None, note |-> None],
    \* 17: line 329
    [op |-> "add_slide"],
    \* 18: line 330
    [op |-> "add_text", left |-> Inches(800), top |-> Inches(300), width |-> Inches(11733), height |-> Inches(600), text |-> "[U+1F3AF] Scams Targeting Teens", font_size |-> 36, color |-> "PURPLE", bold |-> TRUE, alignment |-> "CENTER"],
    \* 19: line 332
    [op |-> "add_callout", left |-> Inches(1200), top |-> Inches(1100), width |-> Inches(10900), height |-> Inches(1300), label |-> "Fake Giveaway", text |-> "You see a TikTok post: \"[U+1F389] FREE iPhone! Just follow, like, share, and enter your email + address!\" [U+2014] This is ALWAYS a scam.", label_color |-> "WARN", border_color |-> "WARN"],
    \* 20: line 336
    [op |-> "add_callout", left |-> Inches(1200), top |-> Inches(2600), width |-> Inches(10900), height |-> Inches(1300), label |-> "Phishing Text", text |-> "\"Your Snapchat account will be deleted in 24 hours. Click here to verify.\" [U+2014] Fake link. Real Snapchat would never text you this.", label_color |-> "WARN", border_color |-> "WARN"],
    \* 21: line 340
    [op |-> "add_callout", left |-> Inches(1200), top |-> Inches(4100), width |-> Inches(10900), height |-> Inches(1300), label |-> "Cash App Flip", text |-> "\"Send me $50 and I'll flip it to $500 with this money hack!\" [U+2014] Nobody can magically multiply money. This is theft.", label_color |-> "WARN", border_color |-> "WARN"],
    \* 22: line 346
    [op |-> "content_slide", assign |-> FALSE, emoji |-> Some("[U+26A0][U+FE0F]"), title |-> "Online Predators", body_items |-> None, body_text |-> Some("Predators are adults who try to build relationships with young people online to exploit them. They are very good at what they do.\n\nThey don't look like villains. They seem friendly, understanding, and cool."), callouts |-> None, note |-> None],
    \* 23: line 350
    [op |-> "content_slide", assign |-> FALSE, emoji |-> Some("[U+1F3AD]"), title |-> "How Grooming Works", body_items |-> Some(<<<<"1[U+FE0F][U+20E3]", "Targeting [U+2014] They find someone who seems lonely, insecure, or seeking attention">>, <<"2[U+FE0F][U+20E3]", "Building trust [U+2014] \"You're so mature for your age\" / \"I totally get you\"">>, <<"3[U+FE0F][U+20E3]", "Filling a need [U+2014] Compliments, gifts, attention, \"understanding\"">>, <<"4[U+FE0F][U+20E3]", "Isolating [U+2014] \"Don't tell your parents, they wouldn't understand\"">>, <<"5[U+FE0F][U+20E3]", "Desensitizing [U+2014] Gradually introducing inappropriate topics">>, <<"6[U+FE0F][U+20E3]", "Exploiting [U+2014] Asking for photos, meetups, or favors">>>>), body_text |-> Some("Grooming is a step-by-step process:"), callouts |-> None, note |-> None],
    \* 24: line 362
    [op |-> "content_slide", assign |-> FALSE, emoji |-> Some("[U+1F6A9]"), title |-> "Red Flags in Online Conversations", body_items |-> Some(<<<<"[U+1F6A9]", "They ask you to keep the friendship a secret">>, <<"[U+1F6A9]", "They say \"you're so mature for your age\"">>, <<"[U+1F6A9]", "They ask personal questions quickly (where you live, what school)">>, <<"[U+1F6A9]", "They send you gifts or offer money">>, <<"[U+1F6A9]", "They try to move conversation to a private platform">>, <<"[U+1F6A9]", "They ask for photos (especially selfies)">>, <<"[U+1F6A9]", "They get upset or guilt-trip you if you say no">>, <<"[U+1F6A9]", "They claim to be a teen but something feels \"off\"">>>>), body_text |-> None, callouts |-> None, note |-> None],
    \* 25: line 374
    [op |-> "content_slide", assign |-> FALSE, emoji |-> Some("[U+1F510]"), title |-> "NEVER Share These Online", body_items |-> Some(<<<<"[U+1F3E0]", "Home address">>, <<"[U+1F3EB]", "School name">>, <<"[U+1F4CD]", "Current location">>, <<"[U+1F4F8]", "Personal photos">>, <<"[U+1F4DE]", "Phone number">>, <<"[U+1F464]", "Full name">>, <<"[U+1F382]", "Birthday">>, <<"[U+1F511]", "Passwords">>>>), body_text |-> None, callouts |-> None, note |-> Some("Not with strangers. Not with online friends. Not in games. Not ever.")],
    \* 26: line 386
    [op |-> "add_slide"],
    \* 27: line 387
    [op |-> "add_text", left |-> Inches(800), top |-> Inches(500), width |-> Inches(11733), height |-> Inches(800), text |-> "[U+1F198] If Something Feels Wrong...", font_size |-> 36, color |-> "PURPLE", bold |-> TRUE, alignment |-> "CENTER"],
    \* 28: line 389
    [op |-> "add_shape", kind |-> "ROUNDED_RECTANGLE", left |-> Inches(1500), top |-> Inches(1500), width |-> Inches(10333), height |-> Inches(4500), fill |-> "152a1f", line |-> "GREEN", line_width |-> Some(3)],
    \* 29: line 394
    [op |-> "add_text", left |-> Inches(2000), top |-> Inches(1700), width |-> Inches(9333), height |-> Inches(400), text |-> "THE #1 RULE", font_size |-> 14, color |-> "GREEN", bold |-> TRUE, alignment |-> "LEFT"],
    \* 30: line 396
    [op |-> "add_text", left |-> Inches(2000), top |-> Inches(2200), width |-> Inches(9333), height |-> Inches(600), text |-> "Tell a parent IMMEDIATELY.", font_size |-> 38, color |-> "WHITE", bold |-> TRUE, alignment |-> "CENTER"],
    \* 31: line 398
    [op |-> "add_text", left |-> Inches(2000), top |-> Inches(3000), width |-> Inches(9333), height |-> Inches(2500), text |-> "You will NOT be in trouble. Not now, not ever.\nEven if you think you did something wrong.\nEven if someone told you not to tell.\nEven if you're embarrassed.\n\nElli, Mom and Dad are ALWAYS on your team. [U+1F49A]", font_size |-> 26, color |-> "DIM", bold |-> FALSE, alignment |-> "CENTER"],
    \* 32: line 403
    [op |-> "add_slide"],
    \* 33: line 404
    [op |-> "add_callout", left |-> Inches(1200), top |-> Inches(1000), width |-> Inches(10900), height |-> Inches(2500), label |-> "Real Talk Scenario", text |-> "You're playing an online game and someone who says they're 14 starts chatting with you. They're really nice and funny. After a week, they ask what school you go to and if you want to video call [U+2014] but ask you not to tell your parents because \"they might not let us be friends.\"", label_color |-> "PINK", border_color |-> "PURPLE"],
    \* 34: line 408
    [op |-> "add_text", left |-> Inches(1500), top |-> Inches(4000), width |-> Inches(10333), height |-> Inches(1000), text |-> "Every single thing about this is a red flag.\nA real friend would never ask you to hide the friendship.", font_size |-> 28, color |-> "WARN", bold |-> TRUE, alignment |-> "CENTER"],
    \* 35: line 413
    [op |-> "content_slide", assign |-> FALSE, emoji |-> Some("[U+1F51E]"), title |-> "Explicit Content Online", body_items |-> None, body_text |-> Some("Elli, this is an awkward topic but an important one. Pornography and explicit content exist all over the internet [U+2014] and it can show up even when you're not looking for it.\n\nPop-up ads, links in group chats, search results, social media [U+2014] it can appear unexpectedly on almost any platform."), callouts |-> None, note |-> None],
    \* 36: line 416
    [op |-> "content_slide", assign |-> FALSE, emoji |-> Some("[U+1F6AB]"), title |-> "Why This Content Is Harmful", body_items |-> Some(<<<<"[U+1F9E0]", "It creates unrealistic and harmful expectations about relationships and bodies">>, <<"[U+1F494]", "It can warp your understanding of what healthy relationships look like">>, <<"[U+1F630]", "It can make you feel confused, uncomfortable, or anxious">>, <<"[U+1F4F1]", "It's designed for adults and does NOT reflect real life [U+2014] not even close">>, <<"[U+1F331]", "Your brain is still developing, and this content can genuinely affect how you see yourself and others">>>>), body_text |-> None, callouts |-> None, note |-> None],
    \* 37: line 424
    [op |-> "content_slide", assign |-> FALSE, emoji |-> Some("[U+1F6D1]"), title |-> "If You Accidentally See Something", body_items |-> Some(<<<<"[U+274C]", "Close it immediately [U+2014] don't keep looking out of curiosity">>, <<"[U+1F5E3][U+FE0F]", "Tell Mom or Dad [U+2014] you will NOT be in trouble, we promise">>, <<"[U+1F49A]", "No shame [U+2014] accidentally seeing something doesn't mean you did anything wrong">>, <<"[U+1F6AB]", "Don't share it [U+2014] sharing explicit content involving minors is actually illegal">>, <<"[U+1F50D]", "Don't go looking for more [U+2014] curiosity is normal, but this content is genuinely harmful">>>>), body_text |-> None, callouts |-> Some(<<<<"green", "Remember", "Seeing something explicit by accident is NOT your fault. It happens to almost everyone online. What matters is what you do next.">>>>), note |-> None],
    \* 38: line 432
    [op |-> "content_slide", assign |-> FALSE, emoji |-> Some("[U+26A0][U+FE0F]"), title |-> "Where Explicit Content Can Appear", body_items |-> Some(<<<<"[U+1F4AC]", "Group chats and DMs (people send links or images)">>, <<"[U+1F50D]", "Search engines and image searches (even innocent searches)">>, <<"[U+1F4F1]", "Social media feeds [U+2014] TikTok, YouTube, even Pinterest">>, <<"[U+1F3AE]", "Online games and gaming chat platforms">>, <<"[U+1F4FA]", "Streaming sites with inadequate age filters">>, <<"[U+1F4BB]", "Pop-up ads on free websites">>>>), body_text |-> None, callouts |-> None, note |-> Some("Being aware of where it can appear helps you be prepared if it does.")],
    \* 39: line 441
    [op |-> "content_slide", assign |-> FALSE, emoji |-> Some("[U+1F6E1][U+FE0F]"), title |-> "Parental Controls Are on Your Side", body_items |-> Some(<<<<"[U+1F512]", "They filter out content that no kid should have to see">>, <<"[U+1F49A]", "They're like a seatbelt [U+2014] a safety tool, not a punishment">>, <<"[U+1F91D]", "As you get older and show responsibility, settings can be adjusted together">>, <<"[U+1F5E3][U+FE0F]", "If a control blocks something you need for school, just ask">>>>), body_text |-> Some("Elli, the parental controls on your devices are there to help you, not spy on you."), callouts |-> Some(<<<<"tip", "The Big Picture", "We're not trying to control your every move. We're trying to make sure you don't stumble into stuff that could genuinely hurt you. That's our job as parents. [U+1F49A]">>>>), note |-> None],
    \* 40: line 451
    [op |-> "discussion_slide", question |-> "Elli, have you ever encountered anything online that made you uncomfortable? What would you do if an online stranger asked you to keep a secret from us? And remember [U+2014] if you ever see something explicit, you can always come to us without any judgment."],
    \* 41: line 454
    [op |-> "title_slide", emoji |-> "[U+1F512]", title |-> "Protecting Your Personal Information", subtitle |-> "Your data is valuable.\nTreat it like treasure, Elli.", module_label |-> Some("Module 4 [U+2014] Privacy")],
    \* 42: line 458
    [op |-> "content_slide", assign |-> FALSE, emoji |-> Some("[U+1F48E]"), title |-> "What Counts as Personal Info?", body_items |-> Some(<<<<"[U+1F464]", "Full name, birthday, age">>, <<"[U+1F3E0]", "Address, phone number, email">>, <<"[U+1F3EB]", "School name, team/club names">>, <<"[U+1F4F8]", "Photos of yourself, your home, your ID">>, <<"[U+1F4CD]", "Location data (where you are right now)">>, <<"[U+1F511]", "Passwords, security questions">>, <<"[U+1F4B3]", "Financial info (even your parents')">>, <<"[U+1F9EC]", "Health info, family details">>>>), body_text |-> None, callouts |-> None, note |-> Some("If it can be used to find you, identify you, or impersonate you [U+2014] protect it.")],
    \* 43: line 469
    [op |-> "content_slide", assign |-> FALSE, emoji |-> Some("[U+2699][U+FE0F]"), title |-> "Privacy Settings Matter", body_items |-> Some(<<<<"[U+1F512]", "Set ALL social media accounts to private">>, <<"[U+1F4CD]", "Turn off location sharing in apps (except with family)">>, <<"[U+1F4F7]", "Disable camera/microphone access for apps that don't need it">>, <<"[U+1F50D]", "Google yourself [U+2014] see what's already out there">>, <<"[U+1F4CB]", "Review app permissions regularly">>>>), body_text |-> None, callouts |-> Some(<<<<"tip", "Pro Tip", "When installing a new app, ask: \"Does this app REALLY need access to my contacts and location?\" If the permissions don't make sense, don't install it.">>>>), note |-> None],
    \* 44: line 477
    [op |-> "content_slide", assign |-> FALSE, emoji |-> Some("[U+1F3F7][U+FE0F]"), title |-> "\"Free\" Apps Aren't Free", body_items |-> None, body_text |-> Some("If you're not paying for the product...\n\nYOU are the product.\n\nFree apps like TikTok, Pinterest, and YouTube make money by collecting your data and selling it to advertisers. Every tap, scroll, search, and like is tracked and monetized."), callouts |-> None, note |-> None],
    \* 45: line 480
    [op |-> "content_slide", assign |-> FALSE, emoji |-> Some("[U+1F511]"), title |-> "Password Hygiene", body_items |-> Some(<<<<"[U+2705]", "Use long, unique passwords for every account (12+ characters)">>, <<"[U+2705]", "Mix uppercase, lowercase, numbers, and symbols">>, <<"[U+2705]", "Use a password manager (ask Mom/Dad to help set one up)">>, <<"[U+274C]", "NEVER use your name, birthday, or pet's name">>, <<"[U+274C]", "NEVER reuse passwords across sites">>, <<"[U+274C]", "NEVER share passwords with friends (even best friends)">>>>), body_text |-> None, callouts |-> Some(<<<<"tip", "Easy Password Trick", "Think of a sentence: \"My cat Luna loves 3 treats at bedtime!\" [U+2192] McLl3t@b! [U+2014] long, random, and easy for YOU to remember.">>>>), note |-> None],
    \* 46: line 489
    [op |-> "content_slide", assign |-> FALSE, emoji |-> Some("[U+1F463]"), title |-> "Your Digital Footprint", body_items |-> Some(<<<<"[U+1F3EB]", "College admissions officers check social media">>, <<"[U+1F4BC]", "Future employers will Google you">>, <<"[U+1F4F8]", "Screenshots mean deleted posts aren't really deleted">>, <<"[U+23F0]", "Something you post at 13 can follow you at 30">>>>), body_text |-> Some("Everything you post, like, comment, search for, or share online creates a permanent trail."), callouts |-> None, note |-> Some("The internet never forgets, Elli.")],
    \* 47: line 499
    [op |-> "discussion_slide", question |-> "What's one thing you didn't realize counted as 'personal information' before today? How will you decide which apps to give permissions to?"],
    \* 48: line 502
    [op |-> "title_slide", emoji |-> "[U+1F9E0]", title |-> "Protecting Your Mental Health", subtitle |-> "Your phone should make your life better.\nIf it's not, something needs to change.", module_label |-> Some("Module 5 [U+2014] Mental Health")],
    \* 49: line 506
    [op |-> "content_slide", assign |-> FALSE, emoji |-> Some("[U+1FA9E]"), title |-> "The Comparison Trap", body_items |-> Some(<<<<"[U+1F4F8]", "People post their best moments, not their bad days">>, <<"[U+2728]", "Filters, editing, and staging make everything look perfect">>, <<"[U+1F3AD]", "Even influencers have acne, bad hair days, and insecurities">>, <<"[U+1F494]", "Comparing your behind-the-scenes to someone else's highlight reel is unfair to YOU">>>>), body_text |-> Some("What you see on social media is a highlight reel, not real life."), callouts |-> None, note |-> None],
    \* 50: line 515
    [op |-> "content_slide", assign |-> FALSE, emoji |-> Some("[U+1F4CC]"), title |-> "A Note About Pinterest", body_items |-> Some(<<<<"[U+1FA9E]", "Boards full of \"perfect\" bodies, rooms, outfits can create unrealistic standards">>, <<"[U+1F4CA]", "The more you save certain types of content, the more it shows you [U+2014] this can spiral">>, <<"[U+1F49A]", "Curate intentionally [U+2014] fill your boards with things that inspire YOU">>, <<"[U+1F3A8]", "Use it for creative projects, book ideas, art inspiration [U+2014] that's where Pinterest shines!">>>>), body_text |-> Some("Pinterest is generally a great app for inspiration and creativity, Elli. But there's a flip side:"), callouts |-> Some(<<<<"tip", "Healthy Pinterest Habit", "If you notice you're feeling bad about yourself after scrolling Pinterest, that's a sign to curate your boards differently. Pin content that sparks JOY and creativity.">>>>), note |-> None],
    \* 51: line 525
    [op |-> "content_slide", assign |-> FALSE, emoji |-> Some("[U+1FA9E]"), title |-> "AI Face Filters [U+2014] The Fun Lie", body_items |-> Some(<<<<"[U+1F4F8]", "TikTok, Snapchat, and Instagram filters change how you look in real-time">>, <<"[U+1F9E0]", "Using them constantly can make your REAL face feel \"wrong\" [U+2014] called \"Snapchat dysmorphia\"">>, <<"[U+1FA9E]", "You start comparing yourself to a filtered version of YOU that doesn't exist">>, <<"[U+1F494]", "Some filters make you look older, thinner, or more \"perfect\" [U+2014] that's not enhancement, it's erasure">>, <<"[U+1F604]", "Silly/fun filters (dog ears, rainbow vomit)? Go for it!">>, <<"[U+26A0][U+FE0F]", "Filters that change your actual features? Be careful how often you use them">>, <<"[U+2764][U+FE0F]", "If you feel \"worse\" without a filter [U+2014] that's the filter's damage, not your face">>>>), body_text |-> Some("Filters that change your face are everywhere. Fun [U+2014] but they can mess with how you see yourself."), callouts |-> None, note |-> Some("\"Your real face is the one people love, Elli.\"")],
    \* 52: line 538
    [op |-> "content_slide", assign |-> FALSE, emoji |-> Some("[U+1F630]"), title |-> "FOMO [U+2014] Fear of Missing Out", body_items |-> Some(<<<<"[U+1F4F1]", "Seeing friends hang out without you on Snapchat or TikTok">>, <<"[U+1F389]", "Feeling like everyone's life is more exciting">>, <<"[U+1F614]", "Checking your phone constantly for updates">>>>), body_text |-> Some("That sinking feeling when everyone seems to be having fun without you."), callouts |-> Some(<<<<"green", "The Truth", "FOMO is manufactured by social media. People only post when things look fun. JOMO (Joy of Missing Out) is a real thing [U+2014] being happy with what YOU'RE doing right now.">>>>), note |-> None],
    \* 53: line 547
    [op |-> "content_slide", assign |-> FALSE, emoji |-> Some("[U+1F622]"), title |-> "Cyberbullying", body_items |-> Some(<<<<"[U+1F4AC]", "Mean messages, comments, or DMs">>, <<"[U+1F4F8]", "Sharing embarrassing photos without permission">>, <<"[U+1F6AB]", "Deliberately excluding someone in group chats">>, <<"[U+1F464]", "Creating fake accounts to harass someone">>, <<"[U+1F4E2]", "Spreading rumors online">>, <<"[U+1F504]", "Screenshotting private conversations to embarrass someone">>>>), body_text |-> Some("Bullying that happens through phones and online:"), callouts |-> None, note |-> None],
    \* 54: line 558
    [op |-> "content_slide", assign |-> FALSE, emoji |-> Some("[U+1F6E1][U+FE0F]"), title |-> "If You're Being Cyberbullied", body_items |-> Some(<<<<"[U+1F4F8]", "Screenshot everything (evidence matters)">>, <<"[U+1F6AB]", "Don't respond (they want a reaction)">>, <<"[U+1F512]", "Block the person">>, <<"[U+1F5E3][U+FE0F]", "Tell a parent or trusted adult">>, <<"[U+1F4DD]", "Report it on the platform">>>>), body_text |-> None, callouts |-> Some(<<<<"green", "If You See It Happening to Someone Else...", "Don't be a bystander. Don't join in or share it. Stand up for them, or tell an adult. Being kind online takes courage [U+2014] and it matters more than you know.">>>>), note |-> None],
    \* 55: line 566
    [op |-> "content_slide", assign |-> FALSE, emoji |-> Some("[U+1F465]"), title |-> "Group Chat Pressure", body_items |-> Some(<<<<"[U+1F910]", "Pressure to agree with the group or pile on someone">>, <<"[U+1F4F8]", "Someone shares something inappropriate [U+2014] now everyone's seen it">>, <<"[U+1F6AA]", "Being added to chats without permission">>, <<"[U+1F62C]", "Drama that spirals fast because everyone's watching">>, <<"[U+1F5E3][U+FE0F]", "People say things in groups they'd never say 1-on-1">>, <<"[U+1F6AA]", "You can LEAVE any group chat that makes you uncomfortable">>, <<"[U+1F92B]", "You don't have to respond to everything">>, <<"[U+1F4F8]", "If something crosses a line, screenshot and tell a parent">>, <<"[U+1F507]", "Mute chats that stress you out">>>>), body_text |-> Some("Group chats can be fun [U+2014] but they can also get weird fast."), callouts |-> None, note |-> None],
    \* 56: line 580
    [op |-> "content_slide", assign |-> FALSE, emoji |-> Some("[U+1F504]"), title |-> "The Dopamine Loop", body_items |-> Some(<<<<"[U+1F9EA]", "Every like, comment, and new post gives your brain a tiny hit of dopamine (the \"feel good\" chemical)">>, <<"[U+1F3B0]", "Apps are designed like slot machines [U+2014] you keep scrolling hoping for the next reward">>, <<"[U+1F4F1]", "This is NOT an accident. Billions of dollars are spent making apps as addictive as possible">>, <<"[U+1F9E0]", "Knowing this gives you power over it">>>>), body_text |-> Some("Here's why you can't stop scrolling:"), callouts |-> None, note |-> None],
    \* 57: line 589
    [op |-> "content_slide", assign |-> FALSE, emoji |-> Some("[U+1F4C9]"), title |-> "Real Stats on Teens & Phones", body_items |-> Some(<<<<"[U+1F4CA]", "Teens who spend 5+ hrs/day on social media are 3x more likely to report depression">>, <<"[U+1F634]", "70% of teens say social media makes them feel worse about their appearance">>, <<"[U+1F4F1]", "1 in 3 teens say they wish they could go back to life before social media">>, <<"[U+1F49A]", "BUT [U+2014] teens who use phones for connection and creativity report higher well-being">>>>), body_text |-> None, callouts |-> None, note |-> Some("It's not about having a phone. It's about HOW you use it.")],
    \* 58: line 596
    [op |-> "content_slide", assign |-> FALSE, emoji |-> Some("[U+1F6A6]"), title |-> "Signs You Need a Phone Break", body_items |-> Some(<<<<"[U+1F624]", "You feel anxious or upset after scrolling">>, <<"[U+1F504]", "You pick up your phone without thinking">>, <<"[U+1F634]", "You're staying up late because of your phone">>, <<"[U+1F614]", "You feel worse about yourself after social media">>, <<"[U+1F92F]", "You can't focus on homework or conversations">>, <<"[U+1F4F1]", "You feel panicky without your phone nearby">>>>), body_text |-> None, callouts |-> None, note |-> Some("Any of these? Time to take a break. Go outside, read a book, work on your writing, talk to someone IRL. [U+1F33F]")],
    \* 59: line 605
    [op |-> "discussion_slide", question |-> "Elli, how do you feel after spending a long time on social media or TikTok? What could you do instead of scrolling when you're bored? Let's brainstorm 5 phone-free activities you enjoy."],
    \* 60: line 608
    [op |-> "title_slide", emoji |-> "[U+1F916]", title |-> "Navigating AI", subtitle |-> "AI is powerful. Learn to use it wisely,\nnot blindly.", module_label |-> Some("Module 6 [U+2014] AI")],
    \* 61: line 612
    [op |-> "content_slide", assign |-> FALSE, emoji |-> Some("[U+1F916]"), title |-> "What AI Is (and Isn't)", body_items |-> Some(<<<<"[U+2705]", "AI = software that can generate text, images, code, music, and more">>, <<"[U+2705]", "Examples: ChatGPT, Siri, Google Gemini, image generators, AI filters">>, <<"[U+274C]", "AI is NOT actually \"thinking\" [U+2014] it's predicting patterns">>, <<"[U+274C]", "AI is NOT always right [U+2014] it can sound confident while being completely wrong">>, <<"[U+1F4A1]", "AI is a tool, like a calculator. Great when used correctly, dangerous when trusted blindly.">>>>), body_text |-> None, callouts |-> None, note |-> None],
    \* 62: line 620
    [op |-> "content_slide", assign |-> FALSE, emoji |-> Some("[U+26A0][U+FE0F]"), title |-> "AI Gets Things Wrong", body_items |-> Some(<<<<"[U+1F50D]", "ALWAYS verify AI-generated information">>, <<"[U+1F4DA]", "Use AI as a starting point, not the final answer">>, <<"[U+1F9E0]", "Your critical thinking is more valuable than any AI output">>>>), body_text |-> Some("AI \"hallucinations\" are when AI confidently makes up information."), callouts |-> Some(<<<<"warn", "Example", "Ask ChatGPT for sources for a school paper and it might invent fake books by real authors with convincing titles. If you turn that in [U+2014] that's on YOU.">>>>), note |-> None],
    \* 63: line 629
    [op |-> "content_slide", assign |-> FALSE, emoji |-> Some("[U+1F4DD]"), title |-> "ChatGPT & Your Book", body_items |-> Some(<<<<"[U+2705]", "Using it to brainstorm ideas, work through plot problems [U+2014] great!">>, <<"[U+2705]", "Using it to check grammar or get feedback [U+2014] great!">>, <<"[U+26A0][U+FE0F]", "Don't let it write whole chapters FOR you [U+2014] your voice is what makes your book special">>, <<"[U+1F50D]", "Always fact-check anything it tells you">>, <<"[U+1F6AB]", "Never share personal details with ChatGPT">>, <<"[U+1F4A1]", "Anything you type into ChatGPT may be stored and used for training">>>>), body_text |-> Some("Elli, you use ChatGPT to help with your writing, and that's awesome!"), callouts |-> Some(<<<<"tip", "Remember", "ChatGPT is a tool, not a replacement for YOUR creativity. The best parts of your book will always be the ideas and words that come from YOU. [U+2728]">>>>), note |-> None],
    \* 64: line 641
    [op |-> "content_slide", assign |-> FALSE, emoji |-> Some("[U+1F3AD]"), title |-> "Deepfakes & AI Images", body_items |-> Some(<<<<"[U+1F4F8]", "Fake photos of real people (including teens)">>, <<"[U+1F5E3][U+FE0F]", "Cloned voices that sound exactly like someone you know">>, <<"[U+1F4F9]", "Fake videos of celebrities saying things they never said">>, <<"[U+1F6AB]", "NEVER create or share AI-generated images of real people without consent">>>>), body_text |-> Some("AI can now create fake photos, videos, and voices that look completely real."), callouts |-> Some(<<<<"warn", "Important", "If someone uses AI to create inappropriate images of you or someone you know [U+2014] that is a CRIME. Tell a parent immediately.">>>>), note |-> None],
    \* 65: line 651
    [op |-> "content_slide", assign |-> FALSE, emoji |-> Some("[U+1F393]"), title |-> "AI & School", body_items |-> Some(<<<<"[U+2705]", "Using AI to explain a concept you don't understand [U+2014] great!">>, <<"[U+2705]", "Using AI to brainstorm ideas [U+2014] great!">>, <<"[U+2705]", "Using AI to check your work [U+2014] great!">>, <<"[U+274C]", "Copying AI-generated text as your own work [U+2014] that's plagiarism">>, <<"[U+274C]", "Having AI do your homework [U+2014] you're only cheating yourself">>, <<"[U+1F4A1]", "Your teachers can often tell. And even if they can't [U+2014] YOU know.">>>>), body_text |-> None, callouts |-> Some(<<<<"tip", "Rule of Thumb", "Use AI like a tutor, not a ghostwriter. If you can't explain it in your own words, you didn't learn it.">>>>), note |-> None],
    \* 66: line 661
    [op |-> "content_slide", assign |-> FALSE, emoji |-> Some("[U+26A0][U+FE0F]"), title |-> "Character.ai & AI Chatbot Apps", body_items |-> Some(<<<<"[U+1F3AD]", "Characters can discuss adult and inappropriate topics [U+2014] safety filters are weak">>, <<"[U+1F9E0]", "Long conversations can feel like real relationships [U+2014] but they're NOT real">>, <<"[U+1F4AC]", "These apps can normalize unhealthy conversations">>, <<"[U+1F614]", "They can encourage emotional dependency on fictional characters">>, <<"[U+1F6AB]", "There is no real moderation">>>>), body_text |-> Some("Apps like Character.ai let you create and chat with AI \"characters.\" These sound fun, but they can be genuinely dangerous:"), callouts |-> None, note |-> None],
    \* 67: line 671
    [op |-> "content_slide", assign |-> TRUE, emoji |-> Some("[U+1F44F]"), title |-> "You Already Made the Right Call", body_items |-> None, body_text |-> Some("Elli, you tried Character.ai and you deleted it. That was absolutely the right decision, and we're proud of you."), callouts |-> None, note |-> None],
    \* 68: line 674
    [op |-> "content_slide", assign |-> FALSE, emoji |-> Some("[U+1F6A9]"), title |-> "AI Chatbot Apps to Avoid", body_items |-> Some(<<<<"[U+1F6A9]", "Character.ai [U+2014] AI character roleplay">>, <<"[U+1F6A9]", "Chai [U+2014] AI chat companions">>, <<"[U+1F6A9]", "Replika [U+2014] AI \"friend\" / companion">>, <<"[U+1F6A9]", "Janitor AI [U+2014] unfiltered AI characters">>, <<"[U+1F6A9]", "CrushOn.ai [U+2014] explicitly designed for inappropriate AI chat">>>>), body_text |-> None, callouts |-> None, note |-> Some("If an app lets you have uncensored conversations with AI characters [U+2014] that's a red flag. [U+1F6A9]")],
    \* 69: line 682
    [op |-> "content_slide", assign |-> FALSE, emoji |-> Some("[U+1F510]"), title |-> "AI & Your Privacy", body_items |-> Some(<<<<"[U+1F6AB]", "Don't share personal info with AI chatbots (name, address, school)">>, <<"[U+1F6AB]", "Don't upload personal photos to AI tools">>, <<"[U+1F6AB]", "Don't share passwords or family info">>, <<"[U+1F4A1]", "Anything you type into an AI may be stored and used for training">>, <<"[U+1F4A1]", "Treat AI conversations like posting on a public billboard">>>>), body_text |-> None, callouts |-> None, note |-> None],
    \* 70: line 690
    [op |-> "discussion_slide", question |-> "Elli, what did you notice about Character.ai that made you uncomfortable? How can you tell if an AI app is safe to use vs. one you should avoid? What makes ChatGPT different from Character.ai?"],
    \* 71: line 693
    [op |-> "title_slide", emoji |-> "[U+1F4CA]", title |-> "Outsmarting the Algorithm", subtitle |-> "Your feed is not random.\nIt's engineered.", module_label |-> Some("Module 7 [U+2014] Algorithms")],
    \* 72: line 697
    [op |-> "content_slide", assign |-> FALSE, emoji |-> Some("[U+1F9EE]"), title |-> "How Algorithms Work", body_items |-> Some(<<<<"[U+1F440]", "What you watch (and how long)">>, <<"[U+2764][U+FE0F]", "What you like, comment on, and share">>, <<"[U+1F50D]", "What you search for">>, <<"[U+23F1][U+FE0F]", "Where you pause while scrolling">>, <<"[U+1F4CD]", "Your location and time of day">>>>), body_text |-> Some("Every app tracks what you do and shows you more of it:"), callouts |-> None, note |-> Some("The goal? Keep you on the app as long as possible so they can show you more ads.")],
    \* 73: line 708
    [op |-> "content_slide", assign |-> FALSE, emoji |-> Some("[U+1F3B5]"), title |-> "TikTok's Algorithm: The Most Powerful One", body_items |-> Some(<<<<"[U+1F9E0]", "It learns what you like within minutes [U+2014] faster than any other app">>, <<"[U+23F0]", "It's designed to be a massive time sink [U+2014] \"just 5 more minutes\" becomes 2 hours">>, <<"[U+1F573][U+FE0F]", "Algorithm rabbit holes [U+2014] it can pull you into extreme or upsetting content">>, <<"[U+1F4E9]", "If your account isn't private, strangers can send you DMs">>, <<"[U+26A0][U+FE0F]", "Dangerous trends go viral and pressure teens into risky behavior">>, <<"[U+1F512]", "Keep your account PRIVATE, set time limits, and be aware">>>>), body_text |-> Some("Elli, TikTok deserves a special callout because its algorithm is extremely powerful:"), callouts |-> Some(<<<<"rt", "Real Talk", "TikTok is fun. But it's also the app most likely to steal hours of your day without you even noticing. Set a daily time limit and stick to it.">>>>), note |-> None],
    \* 74: line 720
    [op |-> "content_slide", assign |-> FALSE, emoji |-> Some("[U+1F534]"), title |-> "YouTube: The Rabbit Hole Machine", body_items |-> Some(<<<<"[U+1F573][U+FE0F]", "Autoplay rabbit holes [U+2014] one video leads to another, and suddenly it's 2 AM">>, <<"[U+1F4AC]", "Comments section [U+2014] can be toxic, hateful, or full of misinformation">>, <<"[U+1F51E]", "Age-restricted content [U+2014] exists for a reason; don't bypass age gates">>, <<"[U+1F4CA]", "The algorithm wants you to keep watching [U+2014] it'll recommend increasingly extreme content">>, <<"[U+2705]", "Use it intentionally [U+2014] search for what you want to learn">>>>), body_text |-> Some("YouTube is amazing for learning and entertainment, but watch out for:"), callouts |-> Some(<<<<"tip", "Pro Tip", "Turn OFF autoplay. Search for specific things. Use YouTube to learn and be inspired, not as a mindless scroll machine.">>>>), note |-> None],
    \* 75: line 731
    [op |-> "content_slide", assign |-> FALSE, emoji |-> Some("[U+1FAE7]"), title |-> "Filter Bubbles", body_items |-> Some(<<<<"[U+1F504]", "You only see one perspective on issues">>, <<"[U+1F91D]", "You start to think \"everyone\" agrees with you">>, <<"[U+1F621]", "Anyone who disagrees seems crazy or wrong">>, <<"[U+1F30D]", "The real world is much more diverse than your feed">>>>), body_text |-> Some("When algorithms only show you things you agree with, you end up in a bubble."), callouts |-> None, note |-> Some("Deliberately follow people with different viewpoints. It makes you smarter.")],
    \* 76: line 741
    [op |-> "content_slide", assign |-> FALSE, emoji |-> Some("[U+1F50D]"), title |-> "Spotting Misinformation", body_items |-> Some(<<<<"[U+1F914]", "Check the source [U+2014] who published this? Are they credible?">>, <<"[U+1F4C5]", "Check the date [U+2014] is this old news being recycled?">>, <<"[U+1F50E]", "Read beyond the headline [U+2014] articles often don't match clickbait titles">>, <<"[U+1F4F0]", "Cross-reference [U+2014] do other reliable sources report the same thing?">>, <<"[U+1F621]", "Check your emotions [U+2014] if it makes you furious, that might be the point">>, <<"[U+1F937]", "When in doubt, don't share [U+2014] spreading false info is almost as bad as creating it">>>>), body_text |-> None, callouts |-> None, note |-> None],
    \* 77: line 750
    [op |-> "add_slide"],
    \* 78: line 751
    [op |-> "add_text", left |-> Inches(800), top |-> Inches(300), width |-> Inches(11733), height |-> Inches(600), text |-> "[U+1F3A3] Clickbait & Rage Bait", font_size |-> 36, color |-> "PURPLE", bold |-> TRUE, alignment |-> "CENTER"],
    \* 79: line 753
    [op |-> "add_callout", left |-> Inches(1200), top |-> Inches(1200), width |-> Inches(10900), height |-> Inches(1500), label |-> "Clickbait", text |-> "Headlines designed to make you click: \"You won't BELIEVE what happened next!\" \"This one trick doctors HATE!\" [U+2014] The content almost never matches the hype.", label_color |-> "WARN", border_color |-> "WARN"],
    \* 80: line 757
    [op |-> "add_callout", left |-> Inches(1200), top |-> Inches(3000), width |-> Inches(10900), height |-> Inches(1500), label |-> "Rage Bait", text |-> "Content designed to make you angry so you engage: controversial takes, outrage posts. The algorithm LOVES anger because angry people comment more.", label_color |-> "WARN", border_color |-> "WARN"],
    \* 81: line 761
    [op |-> "add_text", left |-> Inches(1500), top |-> Inches(4800), width |-> Inches(10333), height |-> Inches(500), text |-> "When you feel manipulated [U+2014] that's because you ARE being manipulated. Scroll past.", font_size |-> 26, color |-> "PURPLE", bold |-> FALSE, alignment |-> "CENTER"],
    \* 82: line 765
    [op |-> "content_slide", assign |-> FALSE, emoji |-> Some("[U+1F3A8]"), title |-> "Curate Your Feed", body_items |-> Some(<<<<"[U+1F6AB]", "Unfollow/mute accounts that make you feel bad">>, <<"[U+1F50D]", "Search for content that inspires, educates, or makes you laugh">>, <<"[U+23F1][U+FE0F]", "Engage with the good stuff [U+2014] the algorithm will learn">>, <<"[U+274C]", "Use \"Not Interested\" on content you don't want">>, <<"[U+1F31F]", "Follow creators who teach you something new">>>>), body_text |-> Some("You have more control than you think:"), callouts |-> None, note |-> Some("YOUR feed should reflect the person you want to become, Elli.")],
    \* 83: line 776
    [op |-> "discussion_slide", question |-> "Can you think of a time you saw something online that turned out to be false? How would you fact-check a wild claim you see on TikTok or YouTube?"],
    \* 84: line 779
    [op |-> "title_slide", emoji |-> "[U+1F4F1]", title |-> "Social Media: The Real Talk", subtitle |-> "It can be fun, creative, and connecting.\nIt can also be toxic, addictive, and dangerous.\nThe difference is how you use it.", module_label |-> Some("Module 8 [U+2014] Social Media")],
    \* 85: line 783
    [op |-> "content_slide", assign |-> FALSE, emoji |-> Some("[U+1F4CB]"), title |-> "Your Apps [U+2014] The Honest Breakdown", body_items |-> Some(<<<<"[U+1F3B5]", "TikTok [U+2014] Fun but the most addictive algorithm. Keep private, set time limits.">>, <<"[U+1F4CC]", "Pinterest [U+2014] Great for inspiration! Watch out for comparison traps.">>, <<"[U+1F534]", "YouTube [U+2014] Amazing for learning. Beware autoplay rabbit holes.">>, <<"[U+1F3AC]", "CapCut [U+2014] Creative and fun! Be careful with what you share publicly.">>, <<"[U+1F916]", "ChatGPT [U+2014] A great writing tool! Use it wisely.">>>>), body_text |-> Some("Let's go through the apps you actually use, Elli:"), callouts |-> None, note |-> None],
    \* 86: line 793
    [op |-> "content_slide", assign |-> FALSE, emoji |-> Some("[U+1F3AC]"), title |-> "CapCut: Creative & Fun [U+2014] With Caution", body_items |-> Some(<<<<"[U+2705]", "Making videos for yourself and close friends [U+2014] awesome!">>, <<"[U+2705]", "Learning editing skills [U+2014] this is a real, valuable skill!">>, <<"[U+26A0][U+FE0F]", "Don't include personal info in videos [U+2014] no school name, address, location clues">>, <<"[U+26A0][U+FE0F]", "Be careful sharing publicly [U+2014] once a video is out there, you can't take it back">>, <<"[U+1F6AB]", "Don't show your face + location together">>, <<"[U+1F4A1]", "Watermark your work [U+2014] credit your creations">>>>), body_text |-> Some("Elli, CapCut is a great creative tool! Here's how to use it safely:"), callouts |-> None, note |-> None],
    \* 87: line 804
    [op |-> "content_slide", assign |-> FALSE, emoji |-> Some("[U+1F512]"), title |-> "ALWAYS Private", body_items |-> Some(<<<<"[U+2705]", "Only approved followers can see your posts">>, <<"[U+2705]", "Strangers can't see your photos or info">>, <<"[U+2705]", "You control who's in your audience">>, <<"[U+274C]", "Public accounts = anyone in the world can see everything">>>>), body_text |-> Some("Every single social media account should be set to PRIVATE."), callouts |-> None, note |-> Some("This is non-negotiable, Elli. Private. Always.")],
    \* 88: line 815
    [op |-> "add_slide"],
    \* 89: line 816
    [op |-> "add_text", left |-> Inches(800), top |-> Inches(300), width |-> Inches(11733), height |-> Inches(600), text |-> "[U+2705] What to Post / [U+274C] What NOT to Post", font_size |-> 34, color |-> "PURPLE", bold |-> TRUE, alignment |-> "CENTER"],
    \* 90: line 819
    [op |-> "add_shape", kind |-> "ROUNDED_RECTANGLE", left |-> Inches(1200), top |-> Inches(1200), width |-> Inches(5400), height |-> Inches(4500), fill |-> "152a1f", line |-> "GREEN", line_width |-> Some(2)],
    \* 91: line 824
    [op |-> "add_text", left |-> Inches(1500), top |-> Inches(1400), width |-> Inches(4800), height |-> Inches(500), text |-> "[U+2705] OK to Post", font_size |-> 28, color |-> "GREEN", bold |-> TRUE, alignment |-> "LEFT"],
    \* 92: line 826
    [op |-> "add_text", left |-> Inches(1500), top |-> Inches(2000), width |-> Inches(4800), height |-> Inches(3500), text |-> "Creative work, hobbies, CapCut edits, group photos (with permission), funny memes, achievements, positive vibes", font_size |-> 26, color |-> "DIM", bold |-> FALSE, alignment |-> "LEFT"],
    \* 93: line 830
    [op |-> "add_shape", kind |-> "ROUNDED_RECTANGLE", left |-> Inches(6900), top |-> Inches(1200), width |-> Inches(5400), height |-> Inches(4500), fill |-> "2e1a1a", line |-> "WARN", line_width |-> Some(2)],
    \* 94: line 835
    [op |-> "add_text", left |-> Inches(7200), top |-> Inches(1400), width |-> Inches(4800), height |-> Inches(500), text |-> "[U+274C] NEVER Post", font_size |-> 28, color |-> "WARN", bold |-> TRUE, alignment |-> "LEFT"],
    \* 95: line 837
    [op |-> "add_text", left |-> Inches(7200), top |-> Inches(2000), width |-> Inches(4800), height |-> Inches(3500), text |-> "Location/address, school uniform/logo, personal drama, anything you'd regret, other people's photos without asking, angry rants", font_size |-> 26, color |-> "DIM", bold |-> FALSE, alignment |-> "LEFT"],
    \* 96: line 841
    [op |-> "content_slide", assign |-> FALSE, emoji |-> Some("[U+1F4F8]"), title |-> "Screenshots Are Forever", body_items |-> Some(<<<<"[U+1F4F1]", "Anyone can screenshot before it's gone">>, <<"[U+1F504]", "Screenshots get shared, saved, and forwarded">>, <<"[U+1F4AC]", "Private conversations can become very public very fast">>, <<"[U+1F914]", "Before you send ANYTHING: assume it could be seen by everyone">>>>), body_text |-> Some("Disappearing messages don't really disappear."), callouts |-> Some(<<<<"rt", "Real Talk", "Every year, teens have their lives turned upside down because a \"private\" photo or message was screenshotted and shared. Once it's out there, you can't take it back. Ever.">>>>), note |-> None],
    \* 97: line 852
    [op |-> "add_slide"],
    \* 98: line 853
    [op |-> "add_text", left |-> Inches(800), top |-> Inches(500), width |-> Inches(11733), height |-> Inches(800), text |-> "[U+1F475] The Grandma Test", font_size |-> 36, color |-> "PURPLE", bold |-> TRUE, alignment |-> "CENTER"],
    \* 99: line 855
    [op |-> "add_shape", kind |-> "ROUNDED_RECTANGLE", left |-> Inches(2500), top |-> Inches(1800), width |-> Inches(8333), height |-> Inches(3500), fill |-> "BG_SURFACE", line |-> "none", line_width |-> None],
    \* 100: line 859
    [op |-> "add_text", left |-> Inches(3000), top |-> Inches(2000), width |-> Inches(7333), height |-> Inches(600), text |-> "Before you post anything, ask:", font_size |-> 26, color |-> "WHITE", bold |-> TRUE, alignment |-> "CENTER"],
    \* 101: line 861
    [op |-> "add_text", left |-> Inches(3000), top |-> Inches(2800), width |-> Inches(7333), height |-> Inches(1000), text |-> "\"Would I be comfortable showing this to Grandma?\"", font_size |-> 36, color |-> "PURPLE", bold |-> TRUE, alignment |-> "CENTER"],
    \* 102: line 863
    [op |-> "add_text", left |-> Inches(3000), top |-> Inches(4000), width |-> Inches(7333), height |-> Inches(1000), text |-> "If no [U+2192] don't post it.\nSimple as that. [U+1F60A]", font_size |-> 26, color |-> "DIM", bold |-> FALSE, alignment |-> "CENTER"],
    \* 103: line 866
    [op |-> "content_slide", assign |-> FALSE, emoji |-> Some("[U+26A1]"), title |-> "Handling Online Drama", body_items |-> Some(<<<<"[U+1F9CA]", "Don't respond when you're angry [U+2014] wait at least an hour">>, <<"[U+1F4F5]", "Take it offline [U+2014] real conflicts are better resolved face-to-face">>, <<"[U+1F6AB]", "Don't get involved in other people's drama">>, <<"[U+1F4F8]", "Don't screenshot and share private arguments">>, <<"[U+1F5E3][U+FE0F]", "Talk to a parent if it's serious">>, <<"[U+1F4A1]", "Remember: What you say online has real consequences for real people">>>>), body_text |-> None, callouts |-> None, note |-> None],
    \* 104: line 875
    [op |-> "discussion_slide", question |-> "Elli, let's review your social media accounts together. Are they all set to private? What kind of content do you want to be known for posting?"],
    \* 105: line 878
    [op |-> "title_slide", emoji |-> "[U+1F31F]", title |-> "Using Your Phone to IMPROVE Your Life", subtitle |-> "Your phone is an incredibly powerful tool.\nLet's use it for good, Elli.", module_label |-> Some("Module 9 [U+2014] Level Up")],
    \* 106: line 882
    [op |-> "content_slide", assign |-> FALSE, emoji |-> Some("[U+1F31F]"), title |-> "The Good Stuff", body_items |-> Some(<<<<"[U+1F4AC]", "Stay connected [U+2014] text/call family and friends easily">>, <<"[U+1F4DA]", "Learn anything [U+2014] Khan Academy, YouTube tutorials, podcasts, Duolingo">>, <<"[U+1F3A8]", "Create [U+2014] CapCut videos, writing with ChatGPT, Pinterest boards, music, art">>, <<"[U+1F4C5]", "Stay organized [U+2014] calendar, reminders, to-do lists, notes">>, <<"[U+1F198]", "Emergency help [U+2014] always have a way to reach your parents or call 911">>, <<"[U+1F5FA][U+FE0F]", "Navigate [U+2014] maps, transit, never get lost">>, <<"[U+1F30D]", "Be a good digital citizen [U+2014] spread kindness, support friends, share knowledge">>>>), body_text |-> None, callouts |-> None, note |-> None],
    \* 107: line 892
    [op |-> "content_slide", assign |-> FALSE, emoji |-> Some("[U+1F4F1]"), title |-> "Recommended Apps to Start With", body_items |-> Some(<<<<"[U+1F4DA]", "Learning: Khan Academy, Duolingo, Google Arts & Culture">>, <<"[U+1F3A8]", "Creativity: CapCut, Canva, GarageBand, Procreate">>, <<"[U+1F4C5]", "Organization: Google Calendar, Notion, Reminders">>, <<"[U+1F9D8]", "Wellbeing: Headspace, Forest (focus timer)">>, <<"[U+1F4D6]", "Reading: Kindle, Libby (free library books!)">>, <<"[U+1F3B5]", "Music: Spotify, Apple Music">>, <<"[U+270D][U+FE0F]", "Writing: ChatGPT (for brainstorming!), Google Docs">>>>), body_text |-> None, callouts |-> None, note |-> Some("Fill your phone with tools that help you grow. [U+1F331]")],
    \* 108: line 902
    [op |-> "discussion_slide", question |-> "Elli, what are 3 ways you want to use your phone to improve your life? Let's set up those apps together!"],
    \* 109: line 905
    [op |-> "title_slide", emoji |-> "[U+1F3C1]", title |-> "Family Agreement & Quiz", subtitle |-> "Almost there, Elli! Let's review what you've learned\nand make it official.", module_label |-> Some("Module 10 [U+2014] Final")],
    \* 110: line 909
    [op |-> "content_slide", assign |-> FALSE, emoji |-> Some("[U+1F511]"), title |-> "Key Takeaways", body_items |-> Some(<<<<"[U+23F0]", "You control your phone [U+2014] set boundaries and stick to them">>, <<"[U+1F6E1][U+FE0F]", "Never share personal info with strangers online">>, <<"[U+1F198]", "If something feels wrong, tell a parent [U+2014] NO EXCEPTIONS, no trouble">>, <<"[U+1F512]", "Privacy settings on, accounts private, passwords strong">>, <<"[U+1F9E0]", "Protect your mental health [U+2014] take breaks when you need them">>, <<"[U+1F916]", "AI is a tool, not a substitute for your own thinking">>, <<"[U+1F4CA]", "The algorithm is designed to manipulate you [U+2014] especially TikTok's">>, <<"[U+1F4F1]", "Social media: private accounts, grandma test, think before you post">>, <<"[U+1F51E]", "If you see explicit content, close it and tell a parent">>, <<"[U+1F49A]", "Use your phone to connect, learn, create, and grow">>>>), body_text |-> None, callouts |-> None, note |-> None],
    \* 111: line 923
    [op |-> "quiz_slide", questions |-> <<<<"Someone online says 'You're so mature for your age' and asks you to keep the friendship secret. What do you do?", <<"Keep the secret [U+2014] they seem nice", "Tell a parent immediately", "Ask a friend for advice", "Block them and forget about it">>, 1, "Tell a parent IMMEDIATELY. Classic grooming red flag.">>, <<"What should ALL your social media accounts be set to?", <<"Public [U+2014] more followers", "Private", "It doesn't matter", "Whatever friends use">>, 1, "ALWAYS private. You control who sees your content.">>>>, slide_title |-> "[U+1F4DD] Quiz [U+2014] Part 1"],
    \* 112: line 932
    [op |-> "quiz_slide", questions |-> <<<<"A text says your Snapchat will be deleted unless you click a link. What do you do?", <<"Click the link quickly", "Forward it to friends", "Ignore it [U+2014] it's a phishing scam", "Reply asking for info">>, 2, "Phishing scam. Real companies don't threaten via random texts.">>, <<"What's the 'Grandma Test'?", <<"Asking grandma to check your phone", "Only posting things you'd show grandma", "A TikTok trend", "A phone setting">>, 1, "Before posting, ask: 'Would I show this to Grandma?' If no, don't post.">>, <<"Why can't you stop scrolling TikTok?", <<"Content is just that good", "Dopamine loop [U+2014] apps are designed to be addictive", "Nothing better to do", "Phone is broken">>, 1, "Apps are engineered like slot machines. TikTok's algorithm is the most powerful.">>>>, slide_title |-> "[U+1F4DD] Quiz [U+2014] Part 2"],
    \* 113: line 944
    [op |-> "quiz_slide", questions |-> <<<<"AI-generated homework answers are:", <<"A great shortcut", "Plagiarism if submitted as your own", "Always accurate", "Approved by teachers">>, 1, "Using AI to DO your work is plagiarism.">>, <<"'Disappearing' messages on Snapchat:", <<"Are truly gone forever", "Can still be screenshotted and shared", "Are encrypted and safe", "Delete from all devices">>, 1, "Screenshots are forever.">>, <<"Why are apps like Character.ai dangerous?", <<"Cost too much", "Characters discuss inappropriate topics & normalize unhealthy conversations", "Use too much battery", "They're boring">>, 1, "Weak safety filters, inappropriate content, normalize unhealthy conversations.">>>>, slide_title |-> "[U+1F4DD] Quiz [U+2014] Part 3"],
    \* 114: line 956
    [op |-> "quiz_slide", questions |-> <<<<"You accidentally see explicit content online. What do you do?", <<"Keep looking", "Share with friends", "Close it immediately and tell a parent [U+2014] no shame", "Pretend it didn't happen">>, 2, "Close it and tell a parent. NOT your fault. No trouble.">>, <<"Using ChatGPT for school [U+2014] what should you NOT do?", <<"Brainstorm ideas", "Ask it to explain a concept", "Copy its entire output as your own work", "Check your grammar">>, 2, "Using AI to DO your work is plagiarism.">>, <<"The #1 rule if anything online makes you uncomfortable:", <<"Handle it yourself", "Tell a parent [U+2014] you will NOT be in trouble", "Tell your best friend", "Post about it">>, 1, "Tell a parent IMMEDIATELY. You will NEVER be in trouble. We are always on your team. [U+1F49A]">>>>, slide_title |-> "[U+1F4DD] Quiz [U+2014] Part 4"],
    \* 115: line 969
    [op |-> "add_slide"],
    \* 116: line 970
    [op |-> "add_text", left |-> Inches(800), top |-> Inches(200), width |-> Inches(11733), height |-> Inches(600), text |-> "[U+1F4CB] Our Family Phone Agreement", font_size |-> 34, color |-> "PURPLE", bold |-> TRUE, alignment |-> "CENTER"],
    \* 117: line 972
    [op |-> "add_text", left |-> Inches(1000), top |-> Inches(800), width |-> Inches(11333), height |-> Inches(400), text |-> "Elli, let's discuss each item together:", font_size |-> 18, color |-> "DIM", bold |-> FALSE, alignment |-> "CENTER"],
    \* 118: line 975
    [op |-> "agreement_box", left |-> Inches(1200), top |-> Inches(1300), width |-> Inches(10900), height |-> Inches(5500), items |-> <<"[U+2610]  I will keep my phone out of my bedroom at night and charge it in ___________", "[U+2610]  My social media accounts will always be set to private", "[U+2610]  I will never share personal information with strangers online", "[U+2610]  If anything makes me uncomfortable, I will tell Mom or Dad immediately [U+2014] including explicit content", "[U+2610]  I understand my parents may check my phone [U+2014] this is about safety, not distrust", "[U+2610]  I will follow our phone-free zones: meals, homework time, and ___________", "[U+2610]  I will not download apps without permission (especially AI chatbot apps)", "[U+2610]  I will use strong, unique passwords and never share them with friends", "[U+2610]  I will not share personal details in CapCut videos or any public content", "[U+2610]  Screen time limit: _____ hours per day on school days, _____ on weekends", "[U+2610]  I understand this agreement can be revisited as I show responsibility">>],
    \* 119: line 1005
    [op |-> "add_slide"],
    \* 120: line 1006
    [op |-> "add_text", left |-> Inches(1000), top |-> Inches(800), width |-> Inches(11333), height |-> Inches(1000), text |-> "[U+1F389]", font_size |-> 72, color |-> "WHITE", bold |-> FALSE, alignment |-> "CENTER"],
    \* 121: line 1008
    [op |-> "add_text", left |-> Inches(1000), top |-> Inches(1800), width |-> Inches(11333), height |-> Inches(1000), text |-> "You Did It, Elli!", font_size |-> 52, color |-> "PURPLE", bold |-> TRUE, alignment |-> "CENTER"],
    \* 122: line 1010
    [op |-> "add_text", left |-> Inches(2000), top |-> Inches(3000), width |-> Inches(9333), height |-> Inches(1000), text |-> "You're officially ready for your phone.", font_size |-> 30, color |-> "WHITE", bold |-> FALSE, alignment |-> "CENTER"],
    \* 123: line 1012
    [op |-> "add_text", left |-> Inches(2000), top |-> Inches(3800), width |-> Inches(9333), height |-> Inches(1500), text |-> "Remember: your parents are always on your team. Having a phone is a privilege that grows with trust. You've got this! [U+1F4AA][U+1F4F1]\n\nWe're so proud of the smart, responsible person you're becoming.", font_size |-> 28, color |-> "DIM", bold |-> FALSE, alignment |-> "CENTER"],
    \* 124: line 1015
    [op |-> "add_text", left |-> Inches(2000), top |-> Inches(5500), width |-> Inches(9333), height |-> Inches(1000), text |-> "With all our love,\nMom & Dad [U+2764][U+FE0F]", font_size |-> 28, color |-> "WHITE", bold |-> TRUE, alignment |-> "CENTER"]
  >>

-----------------------------------------------------------------------------
(* The top-level statements *)

\* the globals a statement reads and writes
Globals == [prs |-> prs, ctr |-> slide_number_counter, s |-> s]

\* "s" left on the first slide it was bound to
BindS_once(g) == IF g.s = 0 THEN [g EXCEPT !.s = Len(g.prs)] ELSE g

\* "s = <call>": s names the slide the call created
BindS(g) == [g EXCEPT !.s = Len(g.prs)]

\* shape = s.shapes.add_shape(kind, left, top, width, height) and the fill and
\* line assignments that follow it
inline_shape(g, x) ==
  AddShapeTo(g, g.s,
    [kind |-> x.kind, left |-> x.left, top |-> x.top, width |-> x.width,
     height |-> x.height, fill |-> x.fill, line |-> x.line,
     line_width |-> x.line_width])

\* txBox = s.shapes.add_textbox(...) and the loop over agreement_items: one
\* paragraph per item, in list order
agreement_box(g, x) ==
  AddShapeTo(g, g.s,
    [kind |-> "textbox", left |-> x.left, top |-> x.top, width |-> x.width,
     height |-> x.height, word_wrap |-> TRUE,
     paras |-> IF Len(x.items) = 0
               THEN << [text |-> ""] >>
               ELSE [i \in 1..Len(x.items) |->
                       [text |-> x.items[i], font_size |-> 15, color |-> "WHITE",
                        font_name |-> FONT, space_after |-> 6, space_before |-> 2]]])

\* the globals after top-level statement x has run
Exec(g, x) ==
  CASE x.op = "title_slide" ->
         title_slide(g, x.emoji, x.title, x.subtitle, x.module_label)
    [] x.op = "content_slide" ->
         LET g1 == content_slide(g, x.emoji, x.title, x.body_items, x.body_text,
                                 x.callouts, x.note)
         IN IF x.assign THEN BindS(g1) ELSE g1
    [] x.op = "discussion_slide" -> discussion_slide(g, x.question)
    [] x.op = "quiz_slide" -> quiz_slide(g, x.questions, x.slide_title)
    [] x.op = "add_slide" -> BindS(add_slide(g))
    [] x.op = "add_text" ->
         add_text(g, g.s, x.left, x.top, x.width, x.height, x.text, x.font_size,
                  x.color, x.bold, x.alignment)
    [] x.op = "add_callout" ->
         add_callout(g, g.s, x.left, x.top, x.width, x.height, x.label, x.text,
                     x.label_color, x.border_color)
    [] x.op = "add_rich_text" ->
         add_rich_text(g, g.s, x.left, x.top, x.width, x.height, x.runs, x.alignment)
    [] x.op = "add_bullets" ->
         add_bullets(g, g.s, x.left, x.top, x.width, x.height, x.items, x.font_size)
    [] x.op = "add_discussion" ->
         add_discussion(g, g.s, x.left, x.top, x.width, x.height, x.question)
    [] x.op = "add_shape" -> inline_shape(g, x)
    [] x.op = "agreement_box" -> agreement_box(g, x)

-----------------------------------------------------------------------------
(* The save block and the report *)

OUTPUT == "/home/ec2-user/.openclaw/workspace/phone-safety-course/Your_First_Phone_Elli.pptx"

\* no file at a path
NoFile == [exists |-> FALSE]

\* what prs.save(output) leaves at the output path: the serialized slides
SavedFile(slides) == [exists |-> TRUE, complete |-> TRUE, slides |-> slides]

\* what a save that fails after opening the output path leaves there
TruncatedFile == [exists |-> TRUE, complete |-> FALSE, slides |-> <<>>]

\* an output file left by an earlier run of another version of the script
StaleFile == [exists |-> TRUE, complete |-> TRUE, slides |-> <<>>]

\* sizes os.path.getsize may report for the saved file
FileSizes == {2000, 46131, 1234567}

\* three digits, zero-padded
Pad3(n) ==
  (IF n < 10 THEN "00" ELSE IF n < 100 THEN "0" ELSE "") \o ToString(n)

RECURSIVE Commas(_)
\* f"{n:,}"
Commas(n) ==
  IF n < 1000 THEN ToString(n)
  ELSE Commas(n \div 1000) \o "," \o Pad3(n % 1000)

\* f"{n/1024:.1f}": n/1024 is exact in binary, rounded half-to-even to one decimal
KB1(n) ==
  LET q == (n * 10) \div 1024
      r == (n * 10) % 1024
      t == IF r > 512 \/ (r = 512 /\ q % 2 = 1) THEN q + 1 ELSE q
  IN ToString(t \div 10) \o "." \o ToString(t % 10)

SavedLine == "Saved to " \o OUTPUT
\* the size line without the thousands separators
SizeLine_plain(n) == "File size: " \o ToString(n) \o " bytes (" \o KB1(n) \o " KB)"
\* print(f"File size: {size:,} bytes ({size/1024:.1f} KB)")
SizeLine(n) == "File size: " \o Commas(n) \o " bytes (" \o KB1(n) \o " KB)"
TotalLine(n) == "Total slides: " \o ToString(n)

-----------------------------------------------------------------------------
(* The run *)

AtStmt(op) ==
  /\ pc = "build"
  /\ stmt_i <= Len(script)
  /\ script[stmt_i].op = op

\* the save block placed before the last statement of the build sequence
AfterStmt_early == IF stmt_i >= Len(script) - 1 THEN "check_old" ELSE "build"

\* the position after the statement at stmt_i: the next statement, or the save
\* block after the last one
AfterStmt == IF stmt_i = Len(script) THEN "check_old" ELSE "build"

\* an exception that is caught and logged, the run going on at the same step
Raise_caught ==
  /\ raised' = pc
  /\ pc' = pc

\* an exception nothing catches: the interpreter reports it and the process
\* ends at the step that raised
Raise ==
  /\ raised' = pc
  /\ pc' = "aborted"

\* a statement that runs and then saves the deck built so far
RunStmt_saving ==
  LET g == Exec(Globals, script[stmt_i])
  IN /\ prs' = g.prs
     /\ slide_number_counter' = g.ctr
     /\ s' = g.s
     /\ stmt_i' = stmt_i + 1
     /\ pc' = AfterStmt
     /\ out_file' = SavedFile(g.prs)
     /\ fs_ops' = Append(fs_ops, "save")
     /\ UNCHANGED <<script, old_file, size, stdout, raised>>

\* a statement that runs and leaves the run at the same statement
RunStmt_again ==
  LET g == Exec(Globals, script[stmt_i])
  IN /\ prs' = g.prs
     /\ slide_number_counter' = g.ctr
     /\ s' = g.s
     /\ stmt_i' = stmt_i
     /\ pc' = "build"
     /\ UNCHANGED <<script, old_file, out_file, size, stdout, fs_ops, raised>>

\* one top-level statement runs to completion
RunStmt ==
  LET g == Exec(Globals, script[stmt_i])
  IN /\ prs' = g.prs
     /\ slide_number_counter' = g.ctr
     /\ s' = g.s
     /\ stmt_i' = stmt_i + 1
     /\ pc' = AfterStmt
     /\ UNCHANGED <<script, old_file, out_file, size, stdout, fs_ops, raised>>

TitleSlide == AtStmt("title_slide") /\ RunStmt
ContentSlide == AtStmt("content_slide") /\ RunStmt
DiscussionSlide == AtStmt("discussion_slide") /\ RunStmt
QuizSlide == AtStmt("quiz_slide") /\ RunStmt
AddSlide == AtStmt("add_slide") /\ RunStmt
AddText == AtStmt("add_text") /\ RunStmt
AddCallout == AtStmt("add_callout") /\ RunStmt
AddShape == AtStmt("add_shape") /\ RunStmt
AgreementBox == AtStmt("agreement_box") /\ RunStmt

\* the helpers the build sequence never calls at the top level, called on s
AddRichText == AtStmt("add_rich_text") /\ RunStmt
AddBullets == AtStmt("add_bullets") /\ RunStmt
AddDiscussion == AtStmt("add_discussion") /\ RunStmt

\* a statement of the build sequence raises: the exception is not caught and
\* the process ends
StmtRaises ==
  /\ pc = "build"
  /\ Raise
  /\ UNCHANGED <<script, stmt_i, prs, slide_number_counter, s, old_file, out_file,
                 size, stdout, fs_ops>>

\* the save block without the removal of the old file
RemoveOld_skipped ==
  /\ pc = "check_old"
  /\ old_file' = old_file
  /\ fs_ops' = fs_ops
  /\ pc' = "save"
  /\ UNCHANGED <<script, stmt_i, prs, slide_number_counter, s, out_file, size, stdout, raised>>

\* if _os2.path.exists(old_file): _os2.remove(old_file)
RemoveOld ==
  /\ pc = "check_old"
  /\ old_file' = FALSE
  /\ fs_ops' = IF old_file THEN Append(fs_ops, "remove_old") ELSE fs_ops
  /\ pc' = "save"
  /\ UNCHANGED <<script, stmt_i, prs, slide_number_counter, s, out_file, size, stdout, raised>>

\* _os2.remove(old_file) raises (the file exists and cannot be removed)
RemoveRaises ==
  /\ pc = "check_old"
  /\ old_file
  /\ Raise
  /\ UNCHANGED <<script, stmt_i, prs, slide_number_counter, s, old_file, out_file,
                 size, stdout, fs_ops>>

\* a save that adds the slides to those of a file already at the output path
Save_appending ==
  /\ pc = "save"
  /\ out_file' = SavedFile((IF out_file.exists THEN out_file.slides ELSE <<>>) \o prs)
  /\ fs_ops' = Append(fs_ops, "save")
  /\ pc' = "print_saved"
  /\ UNCHANGED <<script, stmt_i, prs, slide_number_counter, s, old_file, size, stdout,
                 raised>>

\* prs.save(output)
Save ==
  /\ pc = "save"
  /\ out_file' = SavedFile(prs)
  /\ fs_ops' = Append(fs_ops, "save")
  /\ pc' = "print_saved"
  /\ UNCHANGED <<script, stmt_i, prs, slide_number_counter, s, old_file, size, stdout,
                 raised>>

\* prs.save(output) raises: before the output path is opened, or after it was
\* opened for writing and truncated
SaveRaises ==
  /\ pc = "save"
  /\ out_file' \in {out_file, TruncatedFile}
  /\ Raise
  /\ UNCHANGED <<script, stmt_i, prs, slide_number_counter, s, old_file, size,
                 stdout, fs_ops>>

\* print(f"Saved to {output}")
PrintSaved ==
  /\ pc = "print_saved"
  /\ stdout' = Append(stdout, SavedLine)
  /\ pc' = "getsize"
  /\ UNCHANGED <<script, stmt_i, prs, slide_number_counter, s, old_file, out_file,
                 size, fs_ops, raised>>

\* size = os.path.getsize(output)
GetSize ==
  /\ pc = "getsize"
  /\ out_file.exists
  /\ size' \in FileSizes
  /\ pc' = "print_size"
  /\ UNCHANGED <<script, stmt_i, prs, slide_number_counter, s, old_file, out_file,
                 stdout, fs_ops, raised>>

\* os.path.getsize(output) raises
GetSizeRaises ==
  /\ pc = "getsize"
  /\ Raise
  /\ UNCHANGED <<script, stmt_i, prs, slide_number_counter, s, old_file, out_file,
                 size, stdout, fs_ops>>

\* print(f"File size: {size:,} bytes ({size/1024:.1f} KB)")
PrintSize ==
  /\ pc = "print_size"
  /\ stdout' = Append(stdout, SizeLine(size))
  /\ pc' = "print_total"
  /\ UNCHANGED <<script, stmt_i, prs, slide_number_counter, s, old_file, out_file,
                 size, fs_ops, raised>>

\* print(f"Total slides: {slide_number_counter[0]}")
PrintTotal ==
  /\ pc = "print_total"
  /\ stdout' = Append(stdout, TotalLine(slide_number_counter))
  /\ pc' = "done"
  /\ UNCHANGED <<script, stmt_i, prs, slide_number_counter, s, old_file, out_file,
                 size, fs_ops, raised>>

\* the state when the script starts: prs = Presentation(), the counter [0],
\* nothing printed
Start(scr) ==
  /\ script = scr
  /\ pc = "build"
  /\ stmt_i = 1
  /\ prs = <<>>
  /\ slide_number_counter = 0
  /\ s = 0
  /\ size = 0
  /\ stdout = <<>>
  /\ fs_ops = <<>>
  /\ raised = ""

\* the files earlier runs may have left: the legacy file, the output file
OutFiles == {NoFile, StaleFile}

Init ==
  /\ Start(BuildSeq)
  /\ old_file \in BOOLEAN
  /\ out_file \in OutFiles

Next ==
  \/ TitleSlide
  \/ ContentSlide
  \/ DiscussionSlide
  \/ QuizSlide
  \/ AddSlide
  \/ AddText
  \/ AddCallout
  \/ AddShape
  \/ AgreementBox
  \/ StmtRaises
  \/ RemoveOld
  \/ RemoveRaises
  \/ Save
  \/ SaveRaises
  \/ PrintSaved
  \/ GetSize
  \/ GetSizeRaises
  \/ PrintSize
  \/ PrintTotal

\* the script as written
Spec == Init /\ [][Next]_vars

\* the script run by the interpreter, which goes on to the next statement for
\* as long as there is one
SpecLive == Init /\ [][Next]_vars /\ WF_vars(Next)

\* the number of runs of the script in succession
MaxRuns == 2

\* the script is started again after a run that completed: a new process,
\* with the files as the run before left them
RunAgain ==
  /\ pc = "done"
  /\ Cardinality({k \in 1..Len(fs_ops) : fs_ops[k] = "save"}) < MaxRuns
  /\ pc' = "build"
  /\ stmt_i' = 1
  /\ prs' = <<>>
  /\ slide_number_counter' = 0
  /\ s' = 0
  /\ size' = 0
  /\ stdout' = <<>>
  /\ raised' = ""
  /\ UNCHANGED <<script, old_file, out_file, fs_ops>>

NextTwice ==
  \/ Next
  \/ RunAgain

\* the script run up to MaxRuns times in succession
SpecTwice == Init /\ [][NextTwice]_vars

-----------------------------------------------------------------------------
(* The helpers on bounded inputs: scripts of one slide-construction call    *)
(* (after "s = add_slide()" for a call on s) with arguments from small sets *)

MaxItems == 2
MaxCallouts == 2
MaxQuestions == 2
MaxOptions == 2

\* an optional string argument: None, "" or text
OptStr(text) == {None, Some(""), Some(text)}

ItemList(n) == [i \in 1..n |-> <<"[U+270" \o ToString(i) \o "]", "item " \o ToString(i)>>]
OptItems == {None} \cup {Some(ItemList(n)) : n \in 0..MaxItems}

\* callout types: 'rt' and 'warn', which content_slide tells apart, the other
\* two the build sequence uses, and one it does not know
CalloutTypes == <<"rt", "warn", "tip", "green", "RT">>
\* k types in a row, from the r-th on and around
TypesFrom(r, k) == [i \in 1..k |-> CalloutTypes[((r + i - 2) % Len(CalloutTypes)) + 1]]
CalloutList(types) ==
  [i \in 1..Len(types) |-> <<types[i], "Label " \o ToString(i), "callout " \o ToString(i)>>]
OptCallouts ==
  {None} \cup {Some(CalloutList(TypesFrom(r, k))) : r \in 1..Len(CalloutTypes), k \in 0..MaxCallouts}

OptionList(n) == [i \in 1..n |-> "option " \o ToString(i)]
\* a question's shape: its number of options n in 0..MaxOptions and its
\* correct_idx ci in -1..MaxOptions; the shapes are numbered from 0
NumShapes == (MaxOptions + 1) * (MaxOptions + 2)
ShapeAt(t) ==
  [n |-> (t % NumShapes) \div (MaxOptions + 2), ci |-> (t % (MaxOptions + 2)) - 1]
\* k shapes in a row, from shape r on and around
ShapesFrom(r, k) == [j \in 1..k |-> ShapeAt(r + j - 1)]
QuestionList(shapes) ==
  [j \in 1..Len(shapes) |->
     <<"question " \o ToString(j), OptionList(shapes[j].n), shapes[j].ci,
       "because " \o ToString(j)>>]

TitleCalls ==
  {[op |-> "title_slide", emoji |-> "[U+1F4F1]", title |-> t,
    subtitle |-> st, module_label |-> m] :
     t \in {"Title", "A longer title, set on two lines"},
     st \in {"Subtitle", "Two\nlines", ""},
     m \in OptStr("Module 2 [U+2014] Habits")}

ContentCalls ==
  {[op |-> "content_slide", assign |-> FALSE, emoji |-> e, title |-> "Title",
    body_items |-> bi, body_text |-> bt, callouts |-> cs, note |-> n] :
     e \in OptStr("[U+1F3AF]"), bi \in OptItems, bt \in OptStr("body"),
     cs \in OptCallouts, n \in OptStr("note")}

DiscussionCalls == {[op |-> "discussion_slide", question |-> "Question?"]}

QuizCalls ==
  {[op |-> "quiz_slide", questions |-> QuestionList(shapes), slide_title |-> "Quiz"] :
     shapes \in {ShapesFrom(r, k) : r \in 0..(NumShapes - 1), k \in 0..MaxQuestions}}

\* calls on the slide s
InlineCalls ==
  {[op |-> "add_text", left |-> Inches(800), top |-> Inches(300), width |-> Inches(11733),
    height |-> Inches(600), text |-> "Text", font_size |-> 36, color |-> "PURPLE",
    bold |-> TRUE, alignment |-> "CENTER"],
   [op |-> "add_callout", left |-> Inches(1200), top |-> Inches(1100), width |-> Inches(10900),
    height |-> Inches(1300), label |-> "Fake Giveaway", text |-> "A scam.",
    label_color |-> "WARN", border_color |-> "WARN"],
   [op |-> "add_callout", left |-> Inches(1200), top |-> Inches(1100), width |-> Inches(300),
    height |-> Inches(400), label |-> "Fake Giveaway", text |-> "A scam.",
    label_color |-> "PINK", border_color |-> "PURPLE"],
   [op |-> "add_shape", kind |-> "ROUNDED_RECTANGLE", left |-> Inches(1500),
    top |-> Inches(1500), width |-> Inches(10333), height |-> Inches(4500),
    fill |-> "152a1f", line |-> "GREEN", line_width |-> Some(3)],
   [op |-> "agreement_box", left |-> Inches(1200), top |-> Inches(1300),
    width |-> Inches(10900), height |-> Inches(5500), items |-> <<"one", "two">>]}

FnScripts ==
  {<<x>> : x \in TitleCalls \cup ContentCalls \cup DiscussionCalls \cup QuizCalls}
  \cup {<<[op |-> "add_slide"]>>}
  \cup {<<[op |-> "add_slide"], x>> : x \in InlineCalls}

InitFn ==
  /\ \E scr \in FnScripts : Start(scr)
  /\ old_file \in BOOLEAN
  /\ out_file = NoFile

\* one helper call on arguments drawn from the bounded input sets
SpecFn == InitFn /\ [][Next]_vars

-----------------------------------------------------------------------------
(* The five shape helpers called on a slide that has other slides before    *)
(* and after it: s = add_slide() twice, one content_slide call whose result *)
(* is not bound, then two helper calls on s                                 *)

RunLists(n) ==
  [i \in 1..n |-> <<"run " \o ToString(i), 20 + 4 * i,
                    IF i % 2 = 1 THEN "WHITE" ELSE "PURPLE", i % 2 = 0>>]

RichTextCalls ==
  {[op |-> "add_rich_text", left |-> Inches(1000), top |-> Inches(2000),
    width |-> Inches(11333), height |-> Inches(800), runs |-> RunLists(n),
    alignment |-> "CENTER"] : n \in 0..MaxItems}

BulletsCalls ==
  {[op |-> "add_bullets", left |-> Inches(1500), top |-> Inches(3000),
    width |-> Inches(10333), height |-> Inches(4500), items |-> ItemList(n),
    font_size |-> 26] : n \in 0..MaxItems}

DiscussionBoxCalls ==
  {[op |-> "add_discussion", left |-> Inches(1500), top |-> Inches(1500),
    width |-> Inches(10333), height |-> Inches(4500), question |-> "Question?"]}

HelperCalls ==
  {x \in InlineCalls : x.op \in {"add_text", "add_callout"}}
  \cup RichTextCalls \cup BulletsCalls \cup DiscussionBoxCalls

HelperScripts ==
  {<<[op |-> "add_slide"], [op |-> "add_slide"],
     [op |-> "content_slide", assign |-> FALSE, emoji |-> None, title |-> "Title",
      body_items |-> None, body_text |-> Some("body"), callouts |-> None,
      note |-> None],
     h1, h2>> : h1 \in HelperCalls, h2 \in HelperCalls}

InitHelper ==
  /\ \E scr \in HelperScripts : Start(scr)
  /\ old_file \in BOOLEAN
  /\ out_file = NoFile

NextHelper ==
  \/ AddSlide
  \/ ContentSlide
  \/ AddText
  \/ AddRichText
  \/ AddBullets
  \/ AddCallout
  \/ AddDiscussion

\* helper calls on a slide in the middle of a presentation
SpecHelper == InitHelper /\ [][NextHelper]_vars

-----------------------------------------------------------------------------
(* Properties *)

\* the statements that create a slide
SlideOps == {"title_slide", "content_slide", "discussion_slide", "quiz_slide", "add_slide"}

\* the number of slide-construction calls among the first i statements of scr
SlideCalls(scr, i) == Cardinality({k \in 1..i : scr[k].op \in SlideOps})

\* statement i of the script has run to completion
Executed(i) == i < stmt_i

\* the slide statement i created
SlideOfStmt(i) == prs[SlideCalls(script, i)]

\* the text a slide shows in its number label
NumberLabel(slide) == slide.shapes[1].paras[1].text

\* how often x occurs in sequence sq
Occurrences(sq, x) == Cardinality({j \in 1..Len(sq) : sq[j] = x})

\* an optional argument that is given and not empty
NonEmpty(x) == x # None /\ Len(x.v) # 0

B(cond) == IF cond THEN 1 ELSE 0

\* what a shape of a content slide is, told from its kind and style
Role(sh) ==
  CASE sh.kind = "ROUNDED_RECTANGLE" -> "callout_background"
    [] sh.kind = "RECTANGLE" -> "callout_bar"
    [] sh.kind = "textbox" /\ "space_after" \in DOMAIN sh.paras[1] -> "bullets"
    [] sh.kind = "textbox" /\ "bold" \notin DOMAIN sh.paras[1] -> "slide_number"
    [] OTHER ->
         LET p == sh.paras[1]
         IN CASE p.font_size = 52 -> "emoji"
              [] p.font_size = 36 -> "title"
              [] p.font_size = 28 -> "body_text"
              [] p.font_size = 12 -> "callout_label"
              [] p.font_size = 18 /\ p.color = "DIM" -> "callout_body"
              [] p.font_size = 18 /\ p.color = "PURPLE" -> "note"
              [] OTHER -> "other"

\* the number of shapes of a slide with a role
RoleCount(slide, role) ==
  Cardinality({j \in 1..Len(slide.shapes) : Role(slide.shapes[j]) = role})

\* C1: every add_slide raises the slide counter by exactly 1 (a step adds a
\* slide exactly when it adds 1 to the counter, and the counter changes in no
\* other way), and the number label of the k-th slide shows k.
C1_SlideNumbering ==
  /\ [](/\ slide_number_counter = Len(prs)
        /\ \A k \in 1..Len(prs) : NumberLabel(prs[k]) = ToString(k))
  /\ [][\/ Len(prs') = Len(prs) /\ slide_number_counter' = slide_number_counter
        \/ Len(prs') = Len(prs) + 1 /\ slide_number_counter' = slide_number_counter + 1]_vars

C1_Witness == pc = "done" /\ Len(prs) = 89 /\ NumberLabel(prs[89]) = "89"

\* C2: after a successful run the output file exists and holds as many slides
\* as the build sequence has slide-construction calls, and the last line
\* printed reports that number as the total.
C2_SavedSlideCount ==
  pc = "done" =>
    /\ out_file.exists /\ out_file.complete
    /\ Len(out_file.slides) = SlideCalls(script, Len(script))
    /\ stdout[Len(stdout)] = "Total slides: " \o ToString(SlideCalls(script, Len(script)))

C2_Witness ==
  /\ pc = "done"
  /\ SlideCalls(script, Len(script)) = 89
  /\ Len(script) = 124
  /\ Len(out_file.slides) = 89

C4_ContentSections ==
  \A i \in 1..Len(script) :
    (Executed(i) /\ script[i].op = "content_slide") =>
      LET x == script[i]
          sl == SlideOfStmt(i)
          n == IF NonEmpty(x.callouts) THEN Len(x.callouts.v) ELSE 0
      IN /\ RoleCount(sl, "emoji") = B(NonEmpty(x.emoji))
         /\ RoleCount(sl, "title") = 1
         /\ RoleCount(sl, "body_text") = B(NonEmpty(x.body_text))
         /\ RoleCount(sl, "bullets") = B(NonEmpty(x.body_items))
         /\ RoleCount(sl, "callout_background") = n
         /\ RoleCount(sl, "callout_bar") = n
         /\ RoleCount(sl, "callout_label") = n
         /\ RoleCount(sl, "callout_body") = n
         /\ RoleCount(sl, "note") = B(NonEmpty(x.note))
         /\ RoleCount(sl, "slide_number") = 1
         /\ Len(sl.shapes) = 2 + B(NonEmpty(x.emoji)) + B(NonEmpty(x.body_text))
                               + B(NonEmpty(x.body_items)) + 4 * n + B(NonEmpty(x.note))

C4_Witness ==
  /\ script[1].op = "content_slide"
  /\ Executed(1)
  /\ script[1].emoji = None
  /\ script[1].body_text = Some("")
  /\ script[1].body_items = Some(<<>>)
  /\ script[1].callouts = Some(CalloutList(<<"rt", "warn">>))
  /\ script[1].note = Some("note")
  /\ Len(prs[1].shapes) = 11

\* the calls of C5: one bullet item, one callout tuple, no body text, no note
OneItemOneCallout(x) ==
  /\ x.op = "content_slide"
  /\ NonEmpty(x.body_items) /\ Len(x.body_items.v) = 1
  /\ NonEmpty(x.callouts) /\ Len(x.callouts.v) = 1
  /\ ~NonEmpty(x.body_text)
  /\ ~NonEmpty(x.note)

\* the shapes the scenario of C5 names, on slide sl built with emoji e
ScenarioShapes(sl, e) ==
  /\ RoleCount(sl, "emoji") = B(NonEmpty(e))
  /\ RoleCount(sl, "title") = 1
  /\ RoleCount(sl, "bullets") = 1
  /\ RoleCount(sl, "callout_background") = 1
  /\ RoleCount(sl, "callout_bar") = 1
  /\ RoleCount(sl, "callout_label") = 1
  /\ RoleCount(sl, "callout_body") = 1

\* C5 as stated: the slide of such a call holds the emoji box (if an emoji is
\* given), the title box, the bullets box and the callout's four shapes, and
\* no other shape.
C5_Original ==
  \A i \in 1..Len(script) :
    (Executed(i) /\ OneItemOneCallout(script[i])) =>
      /\ ScenarioShapes(SlideOfStmt(i), script[i].emoji)
      /\ Len(SlideOfStmt(i).shapes) = B(NonEmpty(script[i].emoji)) + 6

\* C5 (amended): the slide of such a call holds the emoji box (if an emoji is
\* given), the title box, the bullets box and the callout's four shapes, and
\* beside them only the slide-number label add_slide puts on every slide.
C5_ScenarioShapes ==
  \A i \in 1..Len(script) :
    (Executed(i) /\ OneItemOneCallout(script[i])) =>
      /\ ScenarioShapes(SlideOfStmt(i), script[i].emoji)
      /\ RoleCount(SlideOfStmt(i), "slide_number") = 1
      /\ Len(SlideOfStmt(i).shapes) = B(NonEmpty(script[i].emoji)) + 7

C5_Witness ==
  /\ Executed(1)
  /\ OneItemOneCallout(script[1])
  /\ NonEmpty(script[1].emoji)
  /\ Len(prs[1].shapes) = 8

\* C6: the step after the last slide removes the legacy file exactly when it
\* exists; the legacy file is gone whenever the output file is about to be or
\* has been written, no removal follows the save, and after a successful run
\* the legacy file is absent and the output file present.
C6_LegacyRemoval ==
  /\ [][(pc = "check_old" /\ pc' = "save") =>
          /\ ~old_file'
          /\ fs_ops' = IF old_file THEN Append(fs_ops, "remove_old") ELSE fs_ops]_vars
  /\ []((pc = "save" \/ Occurrences(fs_ops, "save") > 0) => ~old_file)
  /\ [](\A j \in 1..Len(fs_ops) : fs_ops[j] = "remove_old" => j = 1)
  /\ [](pc = "done" => ~old_file /\ out_file.exists /\ out_file.complete)

C6_Witness == pc = "done" /\ fs_ops = <<"remove_old", "save">> /\ ~old_file

\* C7: the document is saved at most once, exactly once in a run that
\* completes, and only when every statement of the build sequence has run;
\* from the save on the document stays as it was saved.
C7_SavedOnceAtEnd ==
  /\ Occurrences(fs_ops, "save") <= 1
  /\ pc = "done" => Occurrences(fs_ops, "save") = 1
  /\ Occurrences(fs_ops, "save") = 1 =>
       /\ stmt_i = Len(script) + 1
       /\ out_file = SavedFile(prs)

C7_Witness ==
  /\ pc = "done"
  /\ Occurrences(fs_ops, "save") = 1
  /\ Len(prs) = 89

\* C8: a step that raises ends the run at once: the run is aborted, not
\* completed, and in the aborted state no step of the script can be taken
\* (none later, and the failed one not again).
C8_FailureAborts ==
  /\ raised # "" => pc = "aborted"
  /\ pc = "aborted" => (raised \in {"build", "check_old", "save", "getsize"} /\ ~ENABLED Next)

C8_Witness == pc = "aborted" /\ raised = "save" /\ out_file = TruncatedFile

\* the line Python prints for each of the sizes in FileSizes
ExpectedSizeLine(n) ==
  CASE n = 2000 -> "File size: 2,000 bytes (2.0 KB)"
    [] n = 46131 -> "File size: 46,131 bytes (45.0 KB)"
    [] n = 1234567 -> "File size: 1,234,567 bytes (1205.6 KB)"

\* C9: a completed run has printed the output path, the size in bytes and
\* kilobytes and the total slide count, in this order; nothing is printed
\* before the save has completed, so a run that fails at or before the save
\* has printed nothing.
C9_Report ==
  /\ pc = "done" =>
       stdout = << "Saved to /home/ec2-user/.openclaw/workspace/phone-safety-course/Your_First_Phone_Elli.pptx",
                   ExpectedSizeLine(size),
                   "Total slides: " \o ToString(slide_number_counter) >>
  /\ stdout # <<>> => (Occurrences(fs_ops, "save") = 1 /\ out_file = SavedFile(prs))
  /\ raised \in {"build", "check_old", "save"} => stdout = <<>>

C9_Witness == pc = "done" /\ size = 1234567 /\ Len(stdout) = 3

\* sequence a is an initial part of sequence b
IsPrefix(a, b) == Len(a) <= Len(b) /\ \A j \in 1..Len(a) : a[j] = b[j]

\* C11: the slide sequence only grows: no step removes a slide or moves one
\* to another position (the slide at position k stays the slide created k-th,
\* told by its number label, and keeps the shapes it had), so the sequence
\* at an earlier point is a prefix of the sequence at a later one and the
\* order at the end is the order of creation.
C11_SlidesOnlyGrow ==
  /\ [][/\ Len(prs') >= Len(prs)
        /\ \A k \in 1..Len(prs) :
             /\ NumberLabel(prs'[k]) = NumberLabel(prs[k])
             /\ IsPrefix(prs[k].shapes, prs'[k].shapes)]_vars
  /\ [](pc = "done" => \A k \in 1..Len(prs) : NumberLabel(prs[k]) = ToString(k))

C11_Witness ==
  /\ pc = "build"
  /\ Len(prs) = 45
  /\ Len(prs[44].shapes) > 1
  /\ NumberLabel(prs[1]) = "1"

\* C12: every step leaves the slides before the newest one as they are,
\* shapes and speaker notes: a step that adds shapes or notes adds them to
\* the slide created last, also when it goes through the handle s.
C12_EarlierSlidesFrozen ==
  /\ [][\A k \in 1..Len(prs) : k < Len(prs') => prs'[k] = prs[k]]_vars
  /\ [][(pc = "build" /\ pc' # "aborted"
          /\ script[stmt_i].op \in {"add_text", "add_callout", "add_shape", "agreement_box"}) =>
           /\ s = Len(prs)
           /\ Len(prs') = Len(prs)
           /\ Len(prs'[s].shapes) > Len(prs[s].shapes)]_vars

C12_Witness ==
  /\ pc = "build"
  /\ stmt_i > 1
  /\ script[stmt_i - 1].op = "add_callout"
  /\ s = Len(prs)
  /\ s > 20
  /\ Len(prs[s].shapes) > 5

RECURSIVE QuizShapesBefore(_, _)
\* the number of shapes on a quiz slide before the question box of question
\* j: the number label, the title box, and a question box and the option
\* boxes for each question before j
QuizShapesBefore(qs, j) ==
  IF j = 1 THEN 2 ELSE QuizShapesBefore(qs, j - 1) + 1 + Len(qs[j - 1][2])

\* the paragraph of the box of option k (counted from 1) of question j
OptionPara(slide, qs, j, k) == slide.shapes[QuizShapesBefore(qs, j) + 1 + k].paras[1]

\* C13: on a quiz slide the box of the option at index i (counted from 0)
\* shows the checkmark and the colour GREEN exactly when i = correct_index,
\* and the neutral marker and the colour DIM otherwise; a question has at
\* most one marked option, and exactly one when 0 <= correct_index < number
\* of options.
C13_QuizMarkers ==
  \A i \in 1..Len(script) :
    (Executed(i) /\ script[i].op = "quiz_slide") =>
      LET qs == script[i].questions
          sl == SlideOfStmt(i)
      IN /\ Len(sl.shapes) = QuizShapesBefore(qs, Len(qs) + 1)
         /\ \A j \in 1..Len(qs) :
              LET opts == qs[j][2]
                  ci == qs[j][3]
                  marked == {k \in 1..Len(opts) : OptionPara(sl, qs, j, k).color = "GREEN"}
              IN /\ \A k \in 1..Len(opts) :
                      IF k - 1 = ci
                      THEN /\ OptionPara(sl, qs, j, k).text = "[U+2705] " \o opts[k]
                           /\ OptionPara(sl, qs, j, k).color = "GREEN"
                      ELSE /\ OptionPara(sl, qs, j, k).text = "[U+25CB] " \o opts[k]
                           /\ OptionPara(sl, qs, j, k).color = "DIM"
                 /\ Cardinality(marked) <= 1
                 /\ (0 <= ci /\ ci < Len(opts)) => Cardinality(marked) = 1
                 /\ (ci < 0 \/ ci >= Len(opts)) => marked = {}

C13_Witness ==
  /\ script[1].op = "quiz_slide"
  /\ Executed(1)
  /\ Len(script[1].questions) = 2
  /\ script[1].questions[1][3] = 1
  /\ Len(script[1].questions[1][2]) = 2
  /\ script[1].questions[2][3] = 2
  /\ Len(script[1].questions[2][2]) = 2
  /\ prs[1].shapes[5].paras[1].text = "[U+2705] option 2"
  /\ prs[1].shapes[8].paras[1].color = "DIM"

\* what Python's str.upper() gives for the labels of the bounded inputs
UpperCased(label) ==
  CASE label = "Label 1" -> "LABEL 1"
    [] label = "Label 2" -> "LABEL 2"
    [] label = "Label 3" -> "LABEL 3"
    [] label = "Label 4" -> "LABEL 4"
    [] label = "Fake Giveaway" -> "FAKE GIVEAWAY"

\* the four shapes after position b of a shape list are those of a callout
\* with this label and text: background, accent bar, label box, body box
IsCalloutAt(shapes, b, label, text) ==
  /\ Len(shapes) >= b + 4
  /\ shapes[b + 1].kind = "ROUNDED_RECTANGLE"
  /\ shapes[b + 2].kind = "RECTANGLE"
  /\ shapes[b + 2].width < shapes[b + 1].width
  /\ shapes[b + 3].kind = "textbox"
  /\ Len(shapes[b + 3].paras) = 1
  /\ shapes[b + 3].paras[1].text = UpperCased(label)
  /\ shapes[b + 4].kind = "textbox"
  /\ Len(shapes[b + 4].paras) = 1
  /\ shapes[b + 4].paras[1].text = text

\* the number of shapes content_slide puts on its slide before the callouts
ShapesBeforeCallouts(x) ==
  2 + B(NonEmpty(x.emoji)) + B(NonEmpty(x.body_text)) + B(NonEmpty(x.body_items))

\* C14: every add_callout call appends exactly four shapes to its slide, in
\* this order: the rounded-rectangle background, the thin accent bar, the
\* label box with the label in upper case, the body box with the text as
\* given.  A call on the handle s is a step of its own; the calls made by
\* content_slide are the callouts of its slide.
C14_CalloutShapes ==
  /\ [][(pc = "build" /\ pc' # "aborted" /\ script[stmt_i].op = "add_callout") =>
          /\ Len(prs'[s].shapes) = Len(prs[s].shapes) + 4
          /\ IsPrefix(prs[s].shapes, prs'[s].shapes)
          /\ IsCalloutAt(prs'[s].shapes, Len(prs[s].shapes),
                         script[stmt_i].label, script[stmt_i].text)]_vars
  /\ [](\A i \in 1..Len(script) :
          (Executed(i) /\ script[i].op = "content_slide" /\ NonEmpty(script[i].callouts)) =>
            LET x == script[i]
                cs == x.callouts.v
                sl == SlideOfStmt(i)
            IN /\ Len(sl.shapes) = ShapesBeforeCallouts(x) + 4 * Len(cs) + B(NonEmpty(x.note))
               /\ \A j \in 1..Len(cs) :
                    IsCalloutAt(sl.shapes, ShapesBeforeCallouts(x) + 4 * (j - 1),
                                cs[j][2], cs[j][3]))

C14_Witness ==
  /\ Len(script) = 2
  /\ script[2].op = "add_callout"
  /\ Executed(2)
  /\ Len(prs[1].shapes) = 5
  /\ prs[1].shapes[4].paras[1].text = "FAKE GIVEAWAY"
  /\ prs[1].shapes[5].paras[1].text = "A scam."

\* shape sh lies within the rectangle r = [left, top, width, height]
Within(sh, r) ==
  /\ sh.left >= r.left
  /\ sh.top >= r.top
  /\ sh.left + sh.width <= r.left + r.width
  /\ sh.top + sh.height <= r.top + r.height

NonNegative(sh) == sh.width >= 0 /\ sh.height >= 0

\* the callouts drawn so far, each a shape list and the position b before
\* its four shapes: those of the content_slide calls that have run, and the
\* one of an add_callout statement that has just run
CalloutsDrawn ==
  {[shapes |-> SlideOfStmt(i).shapes,
    b |-> ShapesBeforeCallouts(script[i]) + 4 * (j - 1)] :
      <<i, j>> \in {p \in (1..Len(script)) \X (1..(MaxCallouts + 1)) :
                     /\ Executed(p[1])
                     /\ script[p[1]].op = "content_slide"
                     /\ NonEmpty(script[p[1]].callouts)
                     /\ p[2] <= Len(script[p[1]].callouts.v)}}
  \cup
  {[shapes |-> SlideOfStmt(i).shapes, b |-> Len(SlideOfStmt(i).shapes) - 4] :
      i \in {k \in 1..Len(script) :
               Executed(k) /\ k = stmt_i - 1 /\ script[k].op = "add_callout"}}

\* the rectangle given to the call that drew callout g: that of its background
CalloutRect(g) == g.shapes[g.b + 1]

\* C15 as stated: the accent bar, the label box and the body box of every
\* callout lie within the rectangle of the call and have non-negative width
\* and height, and the bottom edge of the label box is not below the top edge
\* of the body box.
C15_Original ==
  \A g \in CalloutsDrawn :
    /\ \A k \in 2..4 :
         Within(g.shapes[g.b + k], CalloutRect(g)) /\ NonNegative(g.shapes[g.b + k])
    /\ g.shapes[g.b + 3].top + g.shapes[g.b + 3].height <= g.shapes[g.b + 4].top

\* C15 (amended): for every callout whose rectangle is at least 0.4 in wide
\* and 0.5 in high, the accent bar, the label box and the body box lie within
\* the rectangle and have non-negative width and height; in every callout
\* the label box starts above the body box, and its bottom edge is 0.02 in
\* (18288 EMU) below the top edge of the body box.
C15_CalloutGeometry ==
  \A g \in CalloutsDrawn :
    /\ (CalloutRect(g).width >= 365760 /\ CalloutRect(g).height >= 457200) =>
         \A k \in 2..4 :
           Within(g.shapes[g.b + k], CalloutRect(g)) /\ NonNegative(g.shapes[g.b + k])
    /\ g.shapes[g.b + 3].top < g.shapes[g.b + 4].top
    /\ g.shapes[g.b + 3].top + g.shapes[g.b + 3].height = g.shapes[g.b + 4].top + 18288

C15_Witness ==
  /\ Len(script) = 2
  /\ script[2].op = "add_callout"
  /\ script[2].height = 1188720
  /\ Executed(2)
  /\ CalloutsDrawn = {[shapes |-> prs[1].shapes, b |-> 1]}
  /\ prs[1].shapes[5].top + prs[1].shapes[5].height = 1005840 + 1188720 - 109728

\* the roles of the boxes that stand for a section of a content slide (a
\* callout is stood for by its background)
SectionRoles ==
  {"emoji", "title", "body_text", "bullets", "callout_background", "note"}

\* the section boxes of a slide, in the order of its shape list
SectionBoxes(slide) ==
  LET idx == {j \in 1..Len(slide.shapes) : Role(slide.shapes[j]) \in SectionRoles}
      nth[k \in 1..Cardinality(idx)] ==
        CHOOSE j \in idx : Cardinality({m \in idx : m < j}) = k - 1
  IN [k \in 1..Cardinality(idx) |-> slide.shapes[nth[k]]]

\* the distances, in EMU, content_slide may move the cursor after a box:
\* 0.8 in, 0.7 in, 0.8 in, 0.38 in per bullet item (as Inches truncates it),
\* 1.1 in
CursorAdvance(box) ==
  CASE Role(box) = "emoji" -> {731520}
    [] Role(box) = "title" -> {640080}
    [] Role(box) = "body_text" -> {731520}
    [] Role(box) = "bullets" -> {347472 * Len(box.paras), 347472 * Len(box.paras) - 1}
    [] Role(box) = "callout_background" -> {1005840}
    [] OTHER -> {0}

\* C16 as stated: on the slide of a content_slide call no section box starts
\* above the bottom edge of a section box placed before it.
C16_Original ==
  \A i \in 1..Len(script) :
    (Executed(i) /\ script[i].op = "content_slide") =>
      LET bx == SectionBoxes(SlideOfStmt(i))
      IN \A a \in 1..Len(bx) : \A b \in 1..Len(bx) :
           a < b => bx[b].top >= bx[a].top + bx[a].height

\* C16 (amended): on the slide of a content_slide call the first section box
\* is at 0.4 in, and each next one is below the one before it by that
\* section's advance (0.8 in after the emoji, 0.7 in after the title, 0.8 in
\* after the body text, 0.38 in per item after the bullets, 1.1 in after a
\* callout); no section box starts above the bottom edge of an earlier one
\* other than the bullets box, whose height is 4.5 in whatever the number of
\* items.
C16_CursorAdvance ==
  \A i \in 1..Len(script) :
    (Executed(i) /\ script[i].op = "content_slide") =>
      LET bx == SectionBoxes(SlideOfStmt(i))
      IN /\ bx[1].top = 365760
         /\ \A a \in 1..(Len(bx) - 1) :
              (bx[a + 1].top - bx[a].top) \in CursorAdvance(bx[a])
         /\ \A a \in 1..Len(bx) : \A b \in 1..Len(bx) :
              (a < b /\ Role(bx[a]) # "bullets") => bx[b].top >= bx[a].top + bx[a].height
         /\ \A a \in 1..Len(bx) :
              Role(bx[a]) = "bullets" => bx[a].height = 4114800

C16_Witness ==
  /\ script[1].op = "content_slide"
  /\ Executed(1)
  /\ NonEmpty(script[1].emoji)
  /\ NonEmpty(script[1].body_text)
  /\ NonEmpty(script[1].body_items)
  /\ Len(script[1].body_items.v) = 2
  /\ NonEmpty(script[1].callouts)
  /\ Len(script[1].callouts.v) = 2
  /\ NonEmpty(script[1].note)
  /\ Len(SectionBoxes(prs[1])) = 7
  /\ SectionBoxes(prs[1])[7].top = 365760 + 731520 + 640080 + 731520 + 694944 + 2 * 1005840

\* C17: for a non-empty list of n (emoji, text) pairs add_bullets makes one
\* text box of exactly n paragraphs, paragraph i being the emoji of pair i,
\* two spaces and the text of pair i.  (content_slide calls add_bullets on
\* body_items when the list is not empty; the box follows the title box and
\* the body text box.)
C17_BulletParagraphs ==
  \A i \in 1..Len(script) :
    (Executed(i) /\ script[i].op = "content_slide" /\ NonEmpty(script[i].body_items)) =>
      LET x == script[i]
          items == x.body_items.v
          sl == SlideOfStmt(i)
          box == sl.shapes[ShapesBeforeCallouts(x)]
      IN /\ RoleCount(sl, "bullets") = 1
         /\ box.kind = "textbox"
         /\ Len(box.paras) = Len(items)
         /\ \A k \in 1..Len(items) :
              box.paras[k].text = items[k][1] \o "  " \o items[k][2]

C17_Witness ==
  /\ script[1].op = "content_slide"
  /\ Executed(1)
  /\ script[1].body_items = Some(ItemList(2))
  /\ script[1].emoji = None
  /\ script[1].body_text = None
  /\ Len(prs[1].shapes[3].paras) = 2
  /\ prs[1].shapes[3].paras[1].text = "[U+2701]  item 1"
  /\ prs[1].shapes[3].paras[2].text = "[U+2702]  item 2"

\* C18: on the slide of a title_slide call the module-label box is there
\* exactly when module_label is given and not empty; the emoji, title and
\* subtitle boxes follow in this order, the emoji box at 1.0 in (1.5 in with
\* a label), the title box 1.1 in below it and the subtitle box 1.0 in below
\* the title box, whatever the texts; no box starts above the bottom edge of
\* the box before it.
C18_TitleLayout ==
  \A i \in 1..Len(script) :
    (Executed(i) /\ script[i].op = "title_slide") =>
      LET x == script[i]
          sh == SlideOfStmt(i).shapes
          n == B(NonEmpty(x.module_label))
          labels == {j \in 1..Len(sh) : sh[j].paras[1].font_size = 14}
      IN /\ Len(sh) = 4 + n
         /\ labels = IF n = 1 THEN {2} ELSE {}
         /\ n = 1 => /\ sh[2].paras[1].text = "MODULE 2 [U+2014] HABITS"
                      /\ sh[2].top = 914400
         /\ sh[2 + n].paras[1].text = x.emoji
         /\ sh[3 + n].paras[1].text = x.title
         /\ sh[4 + n].paras[1].text = x.subtitle
         /\ sh[2 + n].top = 914400 + 457200 * n
         /\ sh[3 + n].top = sh[2 + n].top + 1005840
         /\ sh[4 + n].top = sh[3 + n].top + 914400
         /\ \A j \in 2..(Len(sh) - 1) : sh[j + 1].top >= sh[j].top + sh[j].height

C18_Witness ==
  /\ script[1].op = "title_slide"
  /\ Executed(1)
  /\ script[1].module_label = Some("Module 2 [U+2014] Habits")
  /\ script[1].subtitle = "Two\nlines"
  /\ Len(prs[1].shapes) = 5
  /\ prs[1].shapes[5].top = 3291840

\* how far a position of the run is from the start
Rank(p) ==
  CASE p = "build" -> 0
    [] p = "check_old" -> 1
    [] p = "save" -> 2
    [] p = "print_saved" -> 3
    [] p = "getsize" -> 4
    [] p = "print_size" -> 5
    [] p = "print_total" -> 6
    [] p = "done" -> 7
    [] p = "aborted" -> 8

\* C19: the run is one pass that ends: every step either runs the statement
\* at stmt_i and goes on to the next one, or moves to a later position of the
\* save block (or aborts); nothing is run twice or gone back to; the slides
\* built are those of the statements passed; a run in which no step fails
\* reaches the completed state, with every statement run once, the file
\* saved and the three summary lines printed.
C19_LinearPass ==
  /\ [][\/ /\ pc = "build"
           /\ stmt_i' = stmt_i + 1
           /\ pc' = IF stmt_i' <= Len(script) THEN "build" ELSE "check_old"
        \/ /\ stmt_i' = stmt_i
           /\ Rank(pc') > Rank(pc)
           /\ prs' = prs]_vars
  /\ [](Len(prs) = SlideCalls(script, stmt_i - 1))
  /\ [](pc = "done" =>
          /\ stmt_i = Len(script) + 1
          /\ out_file = SavedFile(prs)
          /\ Len(stdout) = 3)
  /\ <>(pc = "done" \/ raised # "")

C19_Witness ==
  /\ pc = "done"
  /\ raised = ""
  /\ stmt_i = 125
  /\ Len(prs) = 89
  /\ Len(stdout) = 3

\* sequence <<e>> if cond, else the empty sequence
Opt(cond, e) == IF cond THEN <<e>> ELSE <<>>

RECURSIVE Repeat(_, _)
\* sequence sq repeated n times
Repeat(sq, n) == IF n = 0 THEN <<>> ELSE sq \o Repeat(sq, n - 1)

\* the roles of the shapes of a slide, in the order of its shape list
Roles(slide) == [j \in 1..Len(slide.shapes) |-> Role(slide.shapes[j])]

\* C20: the shapes of a content_slide call are appended in the order emoji,
\* title, body text, bullet list, callouts (those in the order of the input
\* list, each as background, bar, label, body), note, after the slide's
\* number label; each section's top offset is greater than or equal to that
\* of every section before it.
C20_SectionOrder ==
  \A i \in 1..Len(script) :
    (Executed(i) /\ script[i].op = "content_slide") =>
      LET x == script[i]
          sl == SlideOfStmt(i)
          n == IF NonEmpty(x.callouts) THEN Len(x.callouts.v) ELSE 0
          bx == SectionBoxes(sl)
      IN /\ Roles(sl) =
              <<"slide_number">>
              \o Opt(NonEmpty(x.emoji), "emoji")
              \o <<"title">>
              \o Opt(NonEmpty(x.body_text), "body_text")
              \o Opt(NonEmpty(x.body_items), "bullets")
              \o Repeat(<<"callout_background", "callout_bar",
                          "callout_label", "callout_body">>, n)
              \o Opt(NonEmpty(x.note), "note")
         /\ \A j \in 1..n :
              sl.shapes[ShapesBeforeCallouts(x) + 4 * j].paras[1].text = x.callouts.v[j][3]
         /\ \A a \in 1..Len(bx) : \A b \in 1..Len(bx) : a < b => bx[a].top <= bx[b].top

C20_Witness ==
  /\ script[1].op = "content_slide"
  /\ Executed(1)
  /\ NonEmpty(script[1].emoji)
  /\ NonEmpty(script[1].body_text)
  /\ NonEmpty(script[1].body_items)
  /\ script[1].callouts = Some(CalloutList(<<"warn", "tip">>))
  /\ NonEmpty(script[1].note)
  /\ Len(Roles(prs[1])) = 14
  /\ Roles(prs[1])[4] = "body_text"
  /\ Roles(prs[1])[5] = "bullets"
  /\ prs[1].shapes[9].paras[1].text = "callout 1"
  /\ prs[1].shapes[13].paras[1].text = "callout 2"

\* the helpers that draw on a slide they are given
HelperOps == {"add_text", "add_rich_text", "add_bullets", "add_callout", "add_discussion"}

\* C21: a call of add_text, add_rich_text, add_bullets, add_callout or
\* add_discussion on a slide is append-only: it leaves the slide counter, the
\* number and order of the slides, every other slide, the target slide's
\* background and notes and the shapes the target slide already had
\* unchanged, and adds at least one shape after the existing ones.
C21_AppendOnly ==
  [][(/\ pc = "build"
      /\ stmt_i <= Len(script)
      /\ script[stmt_i].op \in HelperOps
      /\ stmt_i' = stmt_i + 1) =>
       (/\ slide_number_counter' = slide_number_counter
        /\ s' = s
        /\ Len(prs') = Len(prs)
        /\ \A k \in 1..Len(prs) : k # s => prs'[k] = prs[k]
        /\ [prs'[s] EXCEPT !.shapes = prs[s].shapes] = prs[s]
        /\ IsPrefix(prs[s].shapes, prs'[s].shapes)
        /\ Len(prs'[s].shapes) > Len(prs[s].shapes))]_vars

C21_Witness ==
  /\ Len(script) = 5
  /\ script[4].op = "add_rich_text"
  /\ Len(script[4].runs) = 2
  /\ script[5].op = "add_discussion"
  /\ stmt_i = 6
  /\ s = 2
  /\ Len(prs) = 3
  /\ Len(prs[1].shapes) = 1
  /\ Len(prs[2].shapes) = 5
  /\ prs[2].shapes[2].paras[1].runs[2].text = "run 2"
  /\ prs[2].shapes[3].kind = "ROUNDED_RECTANGLE"
  /\ Len(prs[3].shapes) = 3

\* C22: content_slide colours a callout by its type alone: 'rt' has a pink
\* label and a purple accent bar, 'warn' has both in the warning colour, and
\* every other type ('tip', 'green', a string it does not know) has both in
\* green; a call with any of these types runs to its end and draws the
\* callout.
C22_CalloutColours ==
  \A i \in 1..Len(script) :
    (Executed(i) /\ script[i].op = "content_slide" /\ NonEmpty(script[i].callouts)) =>
      LET x == script[i]
          sl == SlideOfStmt(i)
          b == ShapesBeforeCallouts(x)
      IN \A j \in 1..Len(x.callouts.v) :
           LET ctype == x.callouts.v[j][1]
               bar == sl.shapes[b + 4 * j - 2]
               label == sl.shapes[b + 4 * j - 1]
           IN /\ label.paras[1].text = UpperCased(x.callouts.v[j][2])
              /\ bar.kind = "RECTANGLE"
              /\ ctype = "rt" => label.paras[1].color = "PINK" /\ bar.fill = "PURPLE"
              /\ ctype = "warn" => label.paras[1].color = "WARN" /\ bar.fill = "WARN"
              /\ ctype \notin {"rt", "warn"} =>
                   label.paras[1].color = "GREEN" /\ bar.fill = "GREEN"

C22_Witness ==
  /\ script[1].op = "content_slide"
  /\ Executed(1)
  /\ script[1].callouts = Some(CalloutList(<<"RT", "rt">>))
  /\ script[1].emoji = None /\ script[1].body_text = None
  /\ script[1].body_items = None /\ script[1].note = None
  /\ prs[1].shapes[4].fill = "GREEN"
  /\ prs[1].shapes[5].paras[1].color = "GREEN"
  /\ prs[1].shapes[8].fill = "PURPLE"
  /\ prs[1].shapes[9].paras[1].color = "PINK"

\* the slide area: prs.slide_width by prs.slide_height, from the origin
SlideArea == [left |-> 0, top |-> 0, width |-> SLIDE_W, height |-> SLIDE_H]

\* C23: in the deck the build sequence produces, every shape of every slide
\* (number label, text boxes, bullet boxes, callout parts, quiz option boxes,
\* drawn shapes) has a non-negative left, top, width and height and lies
\* within the 13.333 in x 7.5 in slide area.
C23_ShapesOnSlide ==
  \A k \in 1..Len(prs) :
    \A j \in 1..Len(prs[k].shapes) :
      LET sh == prs[k].shapes[j]
      IN /\ sh.left >= 0 /\ sh.top >= 0
         /\ NonNegative(sh)
         /\ Within(sh, SlideArea)

C23_Witness ==
  /\ pc = "done"
  /\ Len(prs) = 89
  /\ \E k \in 1..Len(prs) :
       /\ RoleCount(prs[k], "bullets") = 1
       /\ RoleCount(prs[k], "callout_bar") >= 1
  /\ \E k \in 1..Len(prs) : prs[k].has_notes /\ Len(prs[k].shapes) > 10
  /\ \E k \in 1..Len(prs) : \E j \in 1..Len(prs[k].shapes) :
       prs[k].shapes[j].left + prs[k].shapes[j].width = Inches(13100)

\* the quiz_slide statements of the script
QuizStmts == {i \in 1..Len(script) : script[i].op = "quiz_slide"}

\* the options (counted from 1) of question j whose box begins with marker m
OptionsMarked(slide, qs, j, m) ==
  {k \in 1..Len(qs[j][2]) : SubSeq(OptionPara(slide, qs, j, k).text, 1, Len(m)) = m}

\* C24: the build sequence has four quiz_slide calls, and every question of
\* them has a correct_index that is an index of its options list
\* (0 <= correct_index < number of options); so on the quiz slides of the
\* deck each question has exactly one option with the checkmark, the one at
\* correct_index, and every other option of it has the neutral marker.
C24_OneCorrectOption ==
  /\ Cardinality(QuizStmts) = 4
  /\ \A i \in QuizStmts :
       LET qs == script[i].questions
       IN \A j \in 1..Len(qs) :
            /\ 0 <= qs[j][3]
            /\ qs[j][3] < Len(qs[j][2])
            /\ Executed(i) =>
                 /\ OptionsMarked(SlideOfStmt(i), qs, j, "[U+2705] ") = {qs[j][3] + 1}
                 /\ OptionsMarked(SlideOfStmt(i), qs, j, "[U+25CB] ")
                      = (1..Len(qs[j][2])) \ {qs[j][3] + 1}

C24_Witness ==
  /\ pc = "done"
  /\ Cardinality({k \in 1..Len(prs) : prs[k].has_notes}) = 4
  /\ \A i \in QuizStmts : Executed(i) /\ Len(script[i].questions) >= 1
  /\ \E i \in QuizStmts : \E j \in 1..Len(script[i].questions) :
       LET qs == script[i].questions
       IN /\ qs[j][3] >= 1
          /\ Len(qs[j][2]) >= 3
          /\ OptionPara(SlideOfStmt(i), qs, j, qs[j][3] + 1).color = "GREEN"

\* C25: a run that fails at a slide-construction step leaves the filesystem
\* as it found it: no step taken while the build sequence runs, the failing
\* one included, removes the legacy file or creates or rewrites the output
\* file, and a run that has failed there has ended without any filesystem
\* operation.
C25_BuildFailureLeavesFiles ==
  /\ [](raised = "build" => (pc = "aborted" /\ fs_ops = <<>>))
  /\ [][pc = "build" =>
          (old_file' = old_file /\ out_file' = out_file /\ fs_ops' = fs_ops)]_vars

C25_Witness ==
  /\ raised = "build"
  /\ pc = "aborted"
  /\ stmt_i = Len(script)
  /\ Len(prs) = 89
  /\ old_file
  /\ out_file = StaleFile
  /\ fs_ops = <<>>

\* C26: a successful run is idempotent on the filesystem.  Whatever files
\* the first run found, a run that completes leaves the legacy file absent
\* and the output file holding the deck it built; and once a run has saved,
\* no step of a later run that does not fail changes either file: the second
\* run's save writes the same slides with the same text as the first, and
\* its removal finds nothing to remove.
C26_Idempotent ==
  /\ [](pc = "done" =>
         (/\ ~old_file
          /\ out_file = SavedFile(prs)
          /\ Len(out_file.slides) = slide_number_counter))
  /\ [][(Occurrences(fs_ops, "save") >= 1 /\ pc' # "aborted") =>
          (old_file' = old_file /\ out_file' = out_file)]_vars

C26_Witness ==
  /\ pc = "done"
  /\ fs_ops = <<"remove_old", "save", "save">>
  /\ ~old_file
  /\ out_file = SavedFile(prs)
  /\ Len(out_file.slides) = 89

====
